---- MODULE Spec2Model ----
(***************************************************************************)
(* A model of the Kaidos node: block store, UTXO set and mempool           *)
(* (core/blockchain.py, core/transaction_manager.py, core/block.py,        *)
(* core/merkle_tree.py) and the request handlers of network/node.py.       *)
(*                                                                         *)
(* Abstractions.                                                           *)
(*  - SHA-256 is an injective constructor: the digest of a value is a      *)
(*    tuple holding that value.  "0"*64 is the empty tuple.                *)
(*  - The number of leading hex zeros of a block hash is a fixed function  *)
(*    of the hashed header (here: of its nonce), as it is for SHA-256.     *)
(*  - Amounts are integers in units of 1e-6 coin, so that the 1e-5         *)
(*    tolerance of the coinbase check is 10 units.                         *)
(*  - Timestamps are whole seconds.                                        *)
(*  - An RSA-PSS signature is the pair (signing address, signed message).  *)
(***************************************************************************)
EXTENDS Integers, Sequences, FiniteSets, TLC

\* ------------------------------------------------------------- bounds
MaxChain == 3
MaxMempool == 2
MaxPeerChain == 3
MaxFaults == 1
MaxConns == 2
MaxSignatures == 2
MaxTxs == 5
MaxPeers == 3
MaxPeerList == 2
MaxHalvings == 7
MaxSteadyChain == 4
MaxMinedChain == 4

\* ---------------------------------------------------- program constants
INITIAL_REWARD == 50000000
HALVING_INTERVAL == 210000
DEFAULT_DIFFICULTY == 4
COINBASE_TOLERANCE == 10
TARGET_TIME == 600
DIFFICULTY_WINDOW == 10

\* The addresses whose public key the local wallet database holds.
WalletAddrs == {"A", "B"}
\* The address of a locally started miner, and of a remote one.
LocalMiner == "A"
PeerMiner == "B"
\* Seconds that pass between two readings of the clock: faster than half
\* the target block time, and slower than twice the target.
Deltas == {1, 1500}
\* Python's None, for an address, for a timestamp and for a digest.
NoAddr == "None"
NoTime == -1
NoHash == <<0, 0, 0, 0, 0, 0, 0>>

VARIABLES blocks, utxos, mempool, now, appended, peerChain, faults,
          resolved, tasks, observed, call, answer, peers, remotePeers

vars == <<blocks, utxos, mempool, now, appended, peerChain, faults,
          resolved, tasks, observed, call, answer, peers, remotePeers>>

\* ------------------------------------------------------------ helpers
Min(S) == CHOOSE x \in S : \A y \in S : x <= y
Max(S) == CHOOSE x \in S : \A y \in S : x >= y
Abs(x) == IF x < 0 THEN -x ELSE x

RECURSIVE SumSeq(_)
SumSeq(s) == IF s = <<>> THEN 0 ELSE Head(s) + SumSeq(Tail(s))

RECURSIVE Pow2(_)
Pow2(n) == IF n <= 0 THEN 1 ELSE 2 * Pow2(n - 1)

Last(s) == s[Len(s)]

\* The least time between two readings of the clock.
Tick == Min(Deltas)

\* ------------------------------------------------------------- hashing
ZeroHash == <<>>

\* Block.compute_hash: SHA-256 of the JSON of the six header fields.
compute_hash(b) ==
    <<b.index, b.merkle_root, b.previous_hash, b.timestamp, b.nonce, b.miner_address>>

\* Blockchain._get_block_difficulty: the number of leading '0' characters.
LeadingZeros(h) == IF h = ZeroHash THEN 64 ELSE IF Len(h) = 6 THEN h[5] ELSE 0

\* hash.startswith('0' * difficulty)
StartsWithZeros(h, d) == LeadingZeros(h) >= d

\* ------------------------------------------------------------- merkle
RECURSIVE build_merkle_tree(_)
build_merkle_tree(hashes) ==
    IF Len(hashes) = 1 THEN hashes[1]
    ELSE build_merkle_tree(
           [k \in 1..((Len(hashes) + 1) \div 2) |->
               <<hashes[2 * k - 1],
                 IF 2 * k > Len(hashes) THEN hashes[2 * k - 1] ELSE hashes[2 * k]>>])

create_merkle_root(txs) ==
    IF txs = <<>> THEN ZeroHash
    ELSE build_merkle_tree([i \in 1..Len(txs) |-> <<txs[i].txid>>])

\* ---------------------------------------------------------- the block
\* Block.__init__: a missing timestamp, merkle root or hash is computed.
Block(index, transactions, previous_hash, timestamp, nonce, hash, miner_address, merkle_root, clock) ==
    LET b0 == [index |-> index,
               transactions |-> transactions,
               previous_hash |-> previous_hash,
               timestamp |-> IF timestamp = NoTime THEN clock ELSE timestamp,
               nonce |-> nonce,
               miner_address |-> miner_address,
               merkle_root |-> IF merkle_root = NoHash
                               THEN create_merkle_root(transactions)
                               ELSE merkle_root]
    IN  [index |-> b0.index,
         transactions |-> b0.transactions,
         previous_hash |-> b0.previous_hash,
         timestamp |-> b0.timestamp,
         nonce |-> b0.nonce,
         miner_address |-> b0.miner_address,
         merkle_root |-> b0.merkle_root,
         hash |-> IF hash = NoHash THEN compute_hash(b0) ELSE hash]

\* Block.mine_block: the nonce grows from its start until the hash has
\* `difficulty` leading zeros; the other fields stay.
mine_block(b, difficulty) ==
    IF StartsWithZeros(b.hash, difficulty) THEN b
    ELSE LET n == Min({k \in (b.nonce + 1)..(b.nonce + 64) :
                          StartsWithZeros(compute_hash([b EXCEPT !.nonce = k]), difficulty)})
             b1 == [b EXCEPT !.nonce = n]
         IN  [b1 EXCEPT !.hash = compute_hash(b1)]

\* Blockchain._create_genesis_block at clock reading t.
Genesis(t) == Block(0, <<>>, ZeroHash, t, 0, NoHash, NoAddr, NoHash, t)

\* ---------------------------------------------------------- the wallet
\* sign_transaction_input: the RSA-PSS signature of `signer` over "txid:vout".
Sign(signer, txid, vout) == [signer |-> signer, msg |-> <<txid, vout>>]

\* Wallet.verify_input_signature: the address must be in the wallet
\* database, and the signature must verify under its public key over the
\* message "<txid>:<vout>" of the input itself.
verify_input_signature(tx_input, address) ==
    /\ address \in WalletAddrs
    /\ tx_input.signature.signer = address
    /\ tx_input.signature.msg = <<tx_input.txid, tx_input.vout>>

\* ----------------------------------------------- the transaction manager
\* TransactionManager._generate_txid: SHA-256 over inputs, outputs and the
\* clock; _generate_coinbase_txid: over miner address, amount and the clock.
generate_txid(inputs, outputs, clock) == <<inputs, outputs, clock>>

generate_coinbase_txid(miner_address, amount, clock) ==
    <<<<>>, <<[address |-> miner_address, amount |-> amount]>>, clock>>

\* TransactionManager.create_coinbase_transaction
create_coinbase_transaction(miner_address, reward, fees, clock) ==
    [txid |-> generate_coinbase_txid(miner_address, reward + fees, clock),
     inputs |-> <<>>,
     outputs |-> <<[address |-> miner_address, amount |-> reward + fees]>>,
     coinbase |-> TRUE]

\* The records of U with key (txid, vout): the unique index keeps at most one.
UtxoAt(U, txid, vout) == {u \in U : u.txid = txid /\ u.vout = vout}

\* TransactionManager._get_utxo, where it is only tested for existence.
has_utxo(U, txid, vout) == UtxoAt(U, txid, vout) # {}

\* TransactionManager._get_utxo, where the record is read.
get_utxo(U, txid, vout) == CHOOSE u \in UtxoAt(U, txid, vout) : TRUE

\* A check of reservations that finds none.
is_utxo_spent_in_mempool_never(U, M, txid, vout) == FALSE

\* TransactionManager._is_utxo_spent_in_mempool: the flag on the record, or
\* a reference from an input of any mempool transaction.
is_utxo_spent_in_mempool(U, M, txid, vout) ==
    \/ \E u \in UtxoAt(U, txid, vout) : u.spent_in_mempool
    \/ \E i \in 1..Len(M) : \E j \in 1..Len(M[i].inputs) :
           M[i].inputs[j].txid = txid /\ M[i].inputs[j].vout = vout

\* TransactionManager._mark_utxo_spent: delete the record, insert it again
\* with the flag set.
mark_utxo_spent(U, txid, vout) ==
    IF ~has_utxo(U, txid, vout) THEN U
    ELSE LET u == get_utxo(U, txid, vout)
         IN  (U \ {u}) \cup {[u EXCEPT !.spent_in_mempool = TRUE]}

RECURSIVE mark_inputs_spent(_, _)
mark_inputs_spent(U, inputs) ==
    IF inputs = <<>> THEN U
    ELSE mark_inputs_spent(mark_utxo_spent(U, Head(inputs).txid, Head(inputs).vout),
                           Tail(inputs))

\* The check validate_transaction makes of one input: what it raises, or "ok".
InputError(U, M, tx_input) ==
    IF ~({"txid", "vout", "signature"} \subseteq DOMAIN tx_input)
    THEN "Invalid input format"
    ELSE IF ~has_utxo(U, tx_input.txid, tx_input.vout) THEN "UTXO not found"
    ELSE IF is_utxo_spent_in_mempool(U, M, tx_input.txid, tx_input.vout)
         THEN "UTXO already spent"
    ELSE IF ~verify_input_signature(tx_input, get_utxo(U, tx_input.txid, tx_input.vout).address)
         THEN "Invalid signature"
    ELSE "ok"

\* input_sum of validate_transaction: one term per input.
InputSum(U, inputs) ==
    SumSeq([i \in 1..Len(inputs) |->
              IF has_utxo(U, inputs[i].txid, inputs[i].vout)
              THEN get_utxo(U, inputs[i].txid, inputs[i].vout).amount ELSE 0])

OutputSum(outputs) == SumSeq([i \in 1..Len(outputs) |-> outputs[i].amount])

\* TransactionManager.validate_transaction: "True", or the message of the
\* InvalidTransactionError it raises (the first failing check, in code order).
validate_transaction(U, M, tx) ==
    IF tx.inputs = <<>> \/ tx.outputs = <<>>
    THEN "Transaction must have inputs and outputs"
    ELSE LET badIn == {i \in 1..Len(tx.inputs) : InputError(U, M, tx.inputs[i]) # "ok"}
             badOut == {i \in 1..Len(tx.outputs) : tx.outputs[i].amount <= 0}
         IN  IF badIn # {} THEN InputError(U, M, tx.inputs[Min(badIn)])
             ELSE IF badOut # {} THEN "Invalid amount"
             ELSE IF InputSum(U, tx.inputs) < OutputSum(tx.outputs)
                  THEN "Insufficient funds"
             ELSE "True"

\* TransactionManager.calculate_transaction_fee: inputs that are not in the
\* UTXO set count for nothing, and the fee is never negative.
calculate_transaction_fee(U, tx) ==
    IF tx.coinbase THEN 0
    ELSE LET d == InputSum(U, tx.inputs) - OutputSum(tx.outputs)
         IN  IF d > 0 THEN d ELSE 0

\* TransactionManager.add_utxo for every output of tx, from output `i` on.
\* The unique index on (txid, vout) makes the insert of a present key raise:
\* ok is then FALSE and the records inserted so far stay.
RECURSIVE add_outputs(_, _, _)
add_outputs(U, tx, i) ==
    IF i > Len(tx.outputs) THEN [utxos |-> U, ok |-> TRUE]
    ELSE IF has_utxo(U, tx.txid, i - 1) THEN [utxos |-> U, ok |-> FALSE]
    ELSE add_outputs(U \cup {[txid |-> tx.txid, vout |-> i - 1,
                               address |-> tx.outputs[i].address,
                               amount |-> tx.outputs[i].amount,
                               spent_in_mempool |-> FALSE]}, tx, i + 1)

\* The UTXOs the inputs of a non-coinbase transaction name are deleted.
remove_inputs(U, tx) ==
    IF tx.coinbase THEN U
    ELSE {u \in U : ~\E j \in 1..Len(tx.inputs) :
                       tx.inputs[j].txid = u.txid /\ tx.inputs[j].vout = u.vout}

\* mempool.delete({"txid": txid})
mempool_delete(M, txid) == SelectSeq(M, LAMBDA t : t.txid # txid)

\* TransactionManager.process_block_transactions from transaction `i` on.
\* No database transaction spans the loop: when an insert raises, what was
\* written before it stays written.
RECURSIVE process_block_transactions(_, _, _, _)
process_block_transactions(U, M, txs, i) ==
    IF i > Len(txs) THEN [utxos |-> U, mempool |-> M, ok |-> TRUE]
    ELSE LET r == add_outputs(remove_inputs(U, txs[i]), txs[i], 1)
         IN  IF ~r.ok THEN [utxos |-> r.utxos, mempool |-> M, ok |-> FALSE]
             ELSE process_block_transactions(r.utxos, mempool_delete(M, txs[i].txid),
                                             txs, i + 1)

\* ------------------------------------------------------- the blockchain
\* Blockchain.get_latest_block: the stored block of greatest index (the
\* sort is stable: of several, the one inserted first).
get_latest_block(B) ==
    LET m == Max({B[i].index : i \in 1..Len(B)})
    IN  B[Min({i \in 1..Len(B) : B[i].index = m})]

\* Blockchain.get_chain_length
get_chain_length(B) == Len(B)

\* sorted(..., key=index): the stored blocks in index order (stable).
RECURSIVE SortByIndex(_)
SortByIndex(B) ==
    IF B = <<>> THEN <<>>
    ELSE LET m == Min({B[i].index : i \in 1..Len(B)})
             k == Min({i \in 1..Len(B) : B[i].index = m})
         IN  <<B[k]>> \o SortByIndex(SubSeq(B, 1, k - 1) \o SubSeq(B, k + 1, Len(B)))

\* Blockchain.get_blocks_range
get_blocks_range(B, start_idx, end_idx) ==
    SortByIndex(SelectSeq(B, LAMBDA b : b.index >= start_idx /\ b.index <= end_idx))

\* A reward that is never halved.
calculate_block_reward_no_halving(block_height) == INITIAL_REWARD

\* Blockchain.calculate_block_reward
calculate_block_reward(block_height) ==
    INITIAL_REWARD \div Pow2(block_height \div HALVING_INTERVAL)

\* A proof check that asks for one leading zero less.
is_valid_proof_one_less(block, difficulty) ==
    StartsWithZeros(block.hash, difficulty - 1)

\* Blockchain._is_valid_proof
is_valid_proof(block, difficulty) == StartsWithZeros(block.hash, difficulty)

\* The loop of get_difficulty that derives the "current difficulty" from
\* the hashes of the window, block by block.
RECURSIVE CurrentDifficulty(_, _, _)
CurrentDifficulty(window, i, cur) ==
    IF i > Len(window) THEN cur
    ELSE IF StartsWithZeros(window[i].hash, cur + 1)
         THEN CurrentDifficulty(window, i + 1, cur + 1)
    ELSE IF ~StartsWithZeros(window[i].hash, cur)
         THEN CurrentDifficulty(window, i + 1, cur - 1)
    ELSE CurrentDifficulty(window, i + 1, cur)

\* A difficulty that never leaves the default.
get_difficulty_default(B) == DEFAULT_DIFFICULTY

\* Blockchain.get_difficulty.  The average of the k differences of the
\* sorted timestamps is (latest - earliest) / k.
get_difficulty(B) ==
    LET n == get_chain_length(B)
        window == get_blocks_range(B, Max({0, n - DIFFICULTY_WINDOW}), n - 1)
    IN  IF Len(window) < 2 THEN DEFAULT_DIFFICULTY
        ELSE LET ts == {window[i].timestamp : i \in 1..Len(window)}
                 span == Max(ts) - Min(ts)
                 k == Len(window) - 1
                 cur == CurrentDifficulty(window, 1, DEFAULT_DIFFICULTY)
             IN  IF 2 * span < TARGET_TIME * k THEN cur + 1
                 ELSE IF span > TARGET_TIME * 2 * k THEN Max({1, cur - 1})
                 ELSE cur

\* The fees loop of _validate_block_transactions over transactions[1:].
\* validate_transaction either returns True or raises; what it raises is
\* caught and passed over, so the loop never ends the validation.
BlockFees(U, M, txs) ==
    SumSeq([i \in 1..(Len(txs) - 1) |-> calculate_transaction_fee(U, txs[i + 1])])

BlockTxsRejected(U, M, txs) ==
    \E i \in 2..Len(txs) : validate_transaction(U, M, txs[i]) = "False"

\* A validation of the coinbase that does not compare the payee with the
\* miner address of the block.
validate_block_transactions_any_payee(U, M, block) ==
    IF block.index = 0 THEN TRUE
    ELSE /\ block.transactions # <<>>
         /\ block.transactions[1].coinbase
         /\ Len(block.transactions[1].inputs) = 0
         /\ Len(block.transactions[1].outputs) = 1
         /\ Abs(block.transactions[1].outputs[1].amount
                  - (calculate_block_reward(block.index)
                       + BlockFees(U, M, block.transactions))) <= COINBASE_TOLERANCE

\* Blockchain._validate_block_transactions
validate_block_transactions(U, M, block) ==
    IF block.index = 0 THEN TRUE
    ELSE /\ block.transactions # <<>>
         /\ block.transactions[1].coinbase
         /\ Len(block.transactions[1].inputs) = 0
         /\ ~BlockTxsRejected(U, M, block.transactions)
         /\ Len(block.transactions[1].outputs) = 1
         /\ Abs(block.transactions[1].outputs[1].amount
                  - (calculate_block_reward(block.index)
                       + BlockFees(U, M, block.transactions))) <= COINBASE_TOLERANCE
         /\ block.transactions[1].outputs[1].address = block.miner_address

\* A block validation that does not look at the index.
is_block_valid_any_index(B, U, M, block) ==
    /\ block.previous_hash = get_latest_block(B).hash
    /\ block.hash = compute_hash(block)
    /\ StartsWithZeros(block.hash, DEFAULT_DIFFICULTY)
    /\ validate_block_transactions(U, M, block)

\* Blockchain._is_block_valid
is_block_valid(B, U, M, block) ==
    /\ block.index = get_latest_block(B).index + 1
    /\ block.previous_hash = get_latest_block(B).hash
    /\ block.hash = compute_hash(block)
    /\ is_valid_proof(block, DEFAULT_DIFFICULTY)
    /\ validate_block_transactions(U, M, block)

\* Blockchain.add_block: validation, then process_block_transactions, then
\* the insert into the block store (whose unique index is on hash).
\* storeOk is whether the store performs the insert.
add_block(B, U, M, block, storeOk) ==
    IF ~is_block_valid(B, U, M, block)
    THEN [status |-> "InvalidBlockError", blocks |-> B, utxos |-> U, mempool |-> M]
    ELSE LET r == process_block_transactions(U, M, block.transactions, 1)
         IN  IF ~r.ok \/ ~storeOk \/ \E i \in 1..Len(B) : B[i].hash = block.hash
             THEN [status |-> "DatabaseError", blocks |-> B,
                   utxos |-> r.utxos, mempool |-> r.mempool]
             ELSE [status |-> "ok", blocks |-> Append(B, block),
                   utxos |-> r.utxos, mempool |-> r.mempool]

\* ------------------------------------------------- requests to the node
\* What the latest call of add_block did: its outcome, and whether the
\* block it was given had the index after the tip, the hash of the tip as
\* previous_hash, and a hash field equal to the hash of its header.
AppendOutcome(B, block, status) ==
    [status |-> status,
     linked |-> /\ block.index = get_latest_block(B).index + 1
                /\ block.previous_hash = get_latest_block(B).hash
                /\ block.hash = compute_hash(block)]

Payee(a) == IF a = LocalMiner THEN PeerMiner ELSE LocalMiner
FeeUnit == INITIAL_REWARD \div 100

\* An input spending UTXO u, and the signatures a client may attach: the
\* owner's, another key's, and the owner's over another message.
TxInput(u, sig) == [txid |-> u.txid, vout |-> u.vout, signature |-> sig]
Signatures(u) == {Sign(u.address, u.txid, u.vout),
                  Sign(Payee(u.address), u.txid, u.vout),
                  Sign(u.address, u.txid, u.vout + 1)}

\* A reference to an output that no block produced.
MissingInput ==
    [txid |-> <<<<>>, <<>>, 0>>, vout |-> 0,
     signature |-> Sign(LocalMiner, <<<<>>, <<>>, 0>>, 0)]

\* The output lists a client may submit when its inputs are worth `total`
\* and `owner` pays: all of it, a part with change and a fee, more than it
\* has, a zero amount, and no output at all.
OutputLists(owner, total) ==
    {<<[address |-> Payee(owner), amount |-> total]>>,
     <<[address |-> Payee(owner), amount |-> total - 3 * FeeUnit],
       [address |-> owner, amount |-> 2 * FeeUnit]>>,
     <<[address |-> Payee(owner), amount |-> total + FeeUnit]>>,
     <<[address |-> Payee(owner), amount |-> 0]>>,
     <<>>}

\* The bodies of POST /transactions the model submits in a state.
TxRequests(U) ==
    UNION {{[inputs |-> <<TxInput(u, sig)>>, outputs |-> outs] :
               sig \in Signatures(u), outs \in OutputLists(u.address, u.amount)} : u \in U}
    \cup {[inputs |-> <<TxInput(u, Sign(u.address, u.txid, u.vout)),
                        TxInput(u, Sign(u.address, u.txid, u.vout))>>,
           outputs |-> <<[address |-> Payee(u.address), amount |-> 2 * u.amount]>>] :
        u \in U}
    \cup UNION {{[inputs |-> <<TxInput(u, Sign(u.address, u.txid, u.vout)),
                               TxInput(v, Sign(v.address, v.txid, v.vout))>>,
                  outputs |-> <<[address |-> Payee(u.address),
                                 amount |-> u.amount + v.amount]>>] :
                    v \in {w \in U : w.address # u.address /\ u.address = LocalMiner}} :
                u \in U}
    \cup {[inputs |-> <<MissingInput>>,
           outputs |-> <<[address |-> PeerMiner, amount |-> FeeUnit]>>],
          [inputs |-> <<>>,
           outputs |-> <<[address |-> PeerMiner, amount |-> FeeUnit]>>]}

\* TransactionManager.add_transaction at clock reading `clock`.
add_transaction(U, M, inputs, outputs, clock) ==
    LET tx_data == [txid |-> generate_txid(inputs, outputs, clock),
                    inputs |-> inputs, outputs |-> outputs, coinbase |-> FALSE]
        v == validate_transaction(U, M, tx_data)
    IN  IF v # "True"
        THEN [status |-> v, utxos |-> U, mempool |-> M]
        ELSE [status |-> "ok", utxos |-> mark_inputs_spent(U, inputs),
              mempool |-> Append(M, tx_data)]

\* POST /transactions
AddTransaction ==
    /\ Len(mempool) < MaxMempool
    /\ \E req \in TxRequests(utxos) :
         LET r == add_transaction(utxos, mempool, req.inputs, req.outputs, now + Tick)
         IN  /\ utxos' = r.utxos
             /\ mempool' = r.mempool
             /\ now' = IF r.status = "ok" THEN now + Tick ELSE now
    /\ UNCHANGED <<call, answer, peers, remotePeers, blocks, appended, peerChain, faults, resolved, tasks, observed>>

\* TransactionManager.get_pending_transactions: the pending transactions in
\* the order of their timestamps, which is the order of their admission.
get_pending_transactions(M) == M

\* The block POST /blocks/mine assembles and mines at clock reading `clock`.
MinedBlock(B, U, M, miner_address, clock) ==
    LET pending_tx == get_pending_transactions(M)
        latest_block == get_latest_block(B)
        block_reward == calculate_block_reward(latest_block.index + 1)
        total_fees == SumSeq([i \in 1..Len(pending_tx) |->
                                 calculate_transaction_fee(U, pending_tx[i])])
        coinbase_tx == create_coinbase_transaction(miner_address, block_reward,
                                                   total_fees, clock)
        new_block == Block(latest_block.index + 1, <<coinbase_tx>> \o pending_tx,
                           latest_block.hash, NoTime, 0, NoHash, miner_address,
                           NoHash, clock)
    IN  mine_block(new_block, get_difficulty(B))

\* POST /blocks/mine
MineBlock ==
    /\ Len(blocks) < MaxChain
    /\ \E dt \in Deltas :
         LET b == MinedBlock(blocks, utxos, mempool, LocalMiner, now + dt)
             r == add_block(blocks, utxos, mempool, b, TRUE)
         IN  /\ blocks' = r.blocks
             /\ utxos' = r.utxos
             /\ mempool' = r.mempool
             /\ now' = IF r.status = "ok" THEN now + dt ELSE now
             /\ appended' = AppendOutcome(blocks, b, r.status)
    /\ UNCHANGED <<call, answer, peers, remotePeers, peerChain, faults, resolved, tasks, observed>>

\* --------------------------------------------- blocks sent by a peer
\* A block with merkle root and hash computed from its fields.
Seal(index, txs, previous_hash, timestamp, nonce, miner_address) ==
    Block(index, txs, previous_hash, timestamp, nonce, NoHash, miner_address,
          NoHash, timestamp)

Rehash(b) == [b EXCEPT !.hash = compute_hash(b)]

\* Block(**block_data) for a block a peer sent.
BlockFromData(data, clock) ==
    Block(data.index, data.transactions, data.previous_hash, data.timestamp,
          data.nonce, data.hash, data.miner_address, data.merkle_root, clock)

AsTx(req, clock) ==
    [txid |-> generate_txid(req.inputs, req.outputs, clock),
     inputs |-> req.inputs, outputs |-> req.outputs, coinbase |-> FALSE]

\* The transactions a peer may put in a block after its coinbase: for a
\* UTXO of the node a signed spend paying a fee, a spend signed with
\* another key, a spend of more than the UTXO holds, and a spend of an
\* output that does not exist.
PeerTxs(U, clock) ==
    UNION {{AsTx([inputs |-> <<TxInput(u, Sign(u.address, u.txid, u.vout))>>,
                  outputs |-> <<[address |-> Payee(u.address),
                                 amount |-> u.amount - FeeUnit]>>], clock),
            AsTx([inputs |-> <<TxInput(u, Sign(Payee(u.address), u.txid, u.vout))>>,
                  outputs |-> <<[address |-> Payee(u.address), amount |-> u.amount]>>], clock),
            AsTx([inputs |-> <<TxInput(u, Sign(u.address, u.txid, u.vout))>>,
                  outputs |-> <<[address |-> Payee(u.address),
                                 amount |-> u.amount + FeeUnit]>>], clock)} : u \in U}
    \cup {AsTx([inputs |-> <<MissingInput>>,
                outputs |-> <<[address |-> PeerMiner, amount |-> FeeUnit]>>], clock)}

\* The bodies of POST /blocks the model submits: the block an honest peer
\* mines on the node's tip (with no transaction, with the node's pending
\* transactions, or with one of PeerTxs), and that block with one thing
\* changed; the last one holds a transaction that spends the output of the
\* transaction after it.
PeerBlocksAt(B, U, M, ts) ==
    LET latest == get_latest_block(B)
        idx == latest.index + 1
        reward == calculate_block_reward(idx)
        cb(amount) == create_coinbase_transaction(PeerMiner, amount, 0, ts)
        fees(inc) == SumSeq([i \in 1..Len(inc) |-> calculate_transaction_fee(U, inc[i])])
        honest(inc) == Seal(idx, <<cb(reward + fees(inc))>> \o inc, latest.hash, ts,
                            DEFAULT_DIFFICULTY, PeerMiner)
        plain == honest(<<>>)
        withTxs(txs) == Seal(idx, txs, latest.hash, ts, DEFAULT_DIFFICULTY, PeerMiner)
        c == cb(reward)
        made == AsTx([inputs |-> <<MissingInput>>,
                      outputs |-> <<[address |-> PeerMiner, amount |-> FeeUnit]>>], ts)
        early == AsTx([inputs |-> <<[txid |-> made.txid, vout |-> 0,
                                     signature |-> Sign(PeerMiner, made.txid, 0)]>>,
                       outputs |-> <<[address |-> LocalMiner, amount |-> FeeUnit]>>], ts)
    IN  {honest(inc) : inc \in {<<>>, M} \cup {<<t>> : t \in PeerTxs(U, ts)}}
        \cup {[plain EXCEPT !.hash = NoHash, !.merkle_root = NoHash],
              Rehash([plain EXCEPT !.index = idx + 1]),
              Rehash([plain EXCEPT !.index = idx - 1]),
              Rehash([plain EXCEPT !.previous_hash = ZeroHash]),
              [plain EXCEPT !.hash = ZeroHash],
              Rehash([plain EXCEPT !.nonce = DEFAULT_DIFFICULTY - 1]),
              Rehash([plain EXCEPT !.nonce = DEFAULT_DIFFICULTY + 1]),
              [plain EXCEPT !.transactions = <<cb(reward + COINBASE_TOLERANCE \div 2)>>],
              withTxs(<<>>),
              withTxs(<<[c EXCEPT !.coinbase = FALSE]>>),
              withTxs(<<[c EXCEPT !.inputs = <<MissingInput>>]>>),
              withTxs(<<[c EXCEPT !.outputs = @ \o @]>>),
              withTxs(<<cb(reward + COINBASE_TOLERANCE \div 2)>>),
              withTxs(<<cb(reward + 2 * COINBASE_TOLERANCE)>>),
              withTxs(<<[c EXCEPT !.outputs[1].address = LocalMiner]>>),
              withTxs(<<c, [c EXCEPT !.txid = generate_coinbase_txid(PeerMiner, reward, ts + 1)]>>),
              withTxs(<<c, early, made>>)}
        \cup {withTxs(<<[c EXCEPT !.txid = u.txid]>>) : u \in U}

\* A peer's block follows the tip by the target block time.
PeerBlocks(B, U, M) ==
    PeerBlocksAt(B, U, M, get_latest_block(B).timestamp + TARGET_TIME)

\* POST /blocks: Block(**data), then add_block.
PostBlock(storeOk) ==
    /\ Len(blocks) < MaxChain
    /\ \E data \in PeerBlocks(blocks, utxos, mempool) :
         LET b == BlockFromData(data, now)
             r == add_block(blocks, utxos, mempool, b, storeOk)
         IN  /\ blocks' = r.blocks
             /\ utxos' = r.utxos
             /\ mempool' = r.mempool
             /\ appended' = AppendOutcome(blocks, b, r.status)
    /\ UNCHANGED <<call, answer, peers, remotePeers, now, peerChain, resolved, tasks, observed>>

ReceiveBlock == PostBlock(TRUE) /\ UNCHANGED faults

\* POST /blocks while the block store fails to perform the insert.
ReceiveBlockStoreFails ==
    /\ faults < MaxFaults
    /\ faults' = faults + 1
    /\ PostBlock(FALSE)

\* ------------------------------------------------------ fork resolution
\* Blockchain._validate_external_chain.  The block rebuilt from the data
\* keeps the hash the data carries.
validate_external_chain(chain) ==
    /\ chain # <<>>
    /\ chain[1].index = 0
    /\ \A i \in 2..Len(chain) :
         /\ chain[i].index = chain[i - 1].index + 1
         /\ chain[i].previous_hash = chain[i - 1].hash
         /\ BlockFromData(chain[i], 0).hash = chain[i].hash
         /\ StartsWithZeros(BlockFromData(chain[i], 0).hash, DEFAULT_DIFFICULTY)

\* Blockchain.is_chain_valid: the scan of the stored chain.  temp_block is
\* built with the stored hash, which Block.__init__ keeps.
is_chain_valid(B) ==
    LET chain == SortByIndex(B)
    IN  /\ Len(chain) # 0
        /\ \A i \in 2..Len(chain) :
             /\ chain[i].index = chain[i - 1].index + 1
             /\ chain[i].previous_hash = chain[i - 1].hash
             /\ BlockFromData(chain[i], 0).hash = chain[i].hash
             /\ StartsWithZeros(BlockFromData(chain[i], 0).hash, DEFAULT_DIFFICULTY)

\* Blockchain._get_block_difficulty
get_block_difficulty(block) == LeadingZeros(block.hash)

ChainWork(chain) ==
    SumSeq([i \in 1..Len(chain) |-> Pow2(get_block_difficulty(chain[i]))])

\* A work test that every candidate passes.
validate_chain_work_always(new_chain, current_chain) == TRUE

\* Blockchain._validate_chain_work: new_work > current_work * 1.1
validate_chain_work(new_chain, current_chain) ==
    10 * ChainWork(new_chain) > 11 * ChainWork(current_chain)

\* A loop over the candidates that also takes a candidate of the length of
\* the best so far.
RECURSIVE BestChainOrEqual(_, _, _, _)
BestChainOrEqual(chains, i, best_chain, best_chain_length) ==
    IF i > Len(chains) THEN best_chain
    ELSE IF Len(chains[i]) >= best_chain_length /\ validate_external_chain(chains[i])
         THEN BestChainOrEqual(chains, i + 1, chains[i], Len(chains[i]))
    ELSE BestChainOrEqual(chains, i + 1, best_chain, best_chain_length)

\* The candidate loop without the length comparison: the last candidate that
\* passes external validation wins.
RECURSIVE BestChainAnyLength(_, _, _, _)
BestChainAnyLength(chains, i, best_chain, best_chain_length) ==
    IF i > Len(chains) THEN best_chain
    ELSE IF validate_external_chain(chains[i])
         THEN BestChainAnyLength(chains, i + 1, chains[i], Len(chains[i]))
    ELSE BestChainAnyLength(chains, i + 1, best_chain, best_chain_length)

\* The loop of resolve_conflicts over the candidates, from candidate i on.
RECURSIVE BestChain(_, _, _, _)
BestChain(chains, i, best_chain, best_chain_length) ==
    IF i > Len(chains) THEN best_chain
    ELSE IF Len(chains[i]) > best_chain_length /\ validate_external_chain(chains[i])
         THEN BestChain(chains, i + 1, chains[i], Len(chains[i]))
    ELSE BestChain(chains, i + 1, best_chain, best_chain_length)

\* The loop of resolve_conflicts that looks for the common ancestor, from
\* position i (counted from 0) on.
RECURSIVE CommonHeight(_, _, _, _)
CommonHeight(current_chain, best_chain, i, common_height) ==
    IF i >= Min({Len(current_chain), Len(best_chain)}) THEN common_height
    ELSE IF current_chain[i + 1].hash = best_chain[i + 1].hash
         THEN CommonHeight(current_chain, best_chain, i + 1, i)
    ELSE common_height

\* The loop of _rebuild_utxo_set_from_height over the blocks, from block i.
RECURSIVE RebuildFrom(_, _, _, _)
RebuildFrom(U, M, bs, i) ==
    IF i > Len(bs) THEN [utxos |-> U, mempool |-> M, ok |-> TRUE]
    ELSE LET r == process_block_transactions(U, M, bs[i].transactions, 1)
         IN  IF ~r.ok THEN r ELSE RebuildFrom(r.utxos, r.mempool, bs, i + 1)

\* Blockchain._rebuild_utxo_set_from_height
rebuild_utxo_set_from_height(B, U, M, height) ==
    RebuildFrom(U, M, get_blocks_range(B, height + 1, get_chain_length(B) - 1), 1)

\* Blockchain.resolve_conflicts
resolve_conflicts(B, U, M, chains) ==
    LET current_chain == SortByIndex(B)
        current_length == Len(current_chain)
        best_chain == BestChain(chains, 1, <<>>, current_length)
        common_height == CommonHeight(current_chain, best_chain, 0, 0)
        new_blocks == SubSeq(best_chain, common_height + 2, Len(best_chain))
        stored == SelectSeq(B, LAMBDA b : ~(b.index > common_height)) \o new_blocks
        r == rebuild_utxo_set_from_height(stored, U, M, common_height)
    IN  IF best_chain = <<>>
        THEN [replaced |-> FALSE, blocks |-> B, utxos |-> U, mempool |-> M]
        ELSE IF common_height = 0 /\ current_length > 0
                  /\ ~validate_chain_work(best_chain, current_chain)
        THEN [replaced |-> FALSE, blocks |-> B, utxos |-> U, mempool |-> M]
        ELSE [replaced |-> r.ok, blocks |-> stored, utxos |-> r.utxos,
              mempool |-> r.mempool]

\* Whether resolve_conflicts ends by raising instead of returning: the blocks
\* are replaced and an insert of the UTXO rebuild hits the unique index.
resolve_conflicts_raises(B, U, M, chains) ==
    LET r == resolve_conflicts(B, U, M, chains)
    IN  ~r.replaced /\ r.blocks # B

\* A chain without its last block.
Prefix(chain) == SubSeq(chain, 1, Len(chain) - 1)

\* A chain with its last block replaced by b.
WithLast(chain, b) == Append(Prefix(chain), b)

\* What a peer that does not answer with its stored chain may answer: the
\* chain with one thing changed in its last block.  The third keeps the
\* hash field and changes the header under it.
Tampered(chain) ==
    IF Len(chain) < 2 THEN {}
    ELSE LET b == Last(chain)
         IN  {WithLast(chain, Rehash([b EXCEPT !.index = @ + 1])),
              WithLast(chain, Rehash([b EXCEPT !.previous_hash = ZeroHash])),
              WithLast(chain, [b EXCEPT !.timestamp = @ + 1]),
              WithLast(chain, Rehash([b EXCEPT !.nonce = DEFAULT_DIFFICULTY - 1]))}

\* The lists of chains _get_chains_from_peers may return: the chain of the
\* peer, a changed chain, or the answers of two peers of which one is a
\* block behind the other.
PeerAnswers(chain) ==
    {<<chain>>}
    \cup {<<t>> : t \in Tampered(chain)}
    \cup (IF Len(chain) < 2 THEN {}
          ELSE {<<Prefix(chain), chain>>, <<chain, Prefix(chain)>>})

\* GET /consensus when the peers answer GET /blocks with `chains`.
ConsensusOn(chains) ==
    LET r == resolve_conflicts(blocks, utxos, mempool, chains)
    IN  /\ blocks' = r.blocks
        /\ utxos' = r.utxos
        /\ mempool' = r.mempool
        /\ resolved' = [chains |-> chains, replaced |-> r.replaced,
                        raised |-> resolve_conflicts_raises(blocks, utxos, mempool, chains)]
        /\ UNCHANGED <<call, answer, peers, remotePeers, now, appended, peerChain, faults, tasks, observed>>

\* GET /consensus with one peer, which answers GET /blocks with peerChain.
Consensus == ConsensusOn(<<peerChain>>)

\* GET /consensus with peers that may answer anything of PeerAnswers.
ConsensusAny == \E chains \in PeerAnswers(peerChain) : ConsensusOn(chains)

\* The peer is a node of its own.  It created its genesis block when it
\* first started, at its own clock reading.
PeerStart == 1

\* The peer is restarted on a copy of this node's block store.
PeerSync ==
    /\ peerChain # blocks
    /\ Len(blocks) <= MaxPeerChain
    /\ peerChain' = blocks
    /\ UNCHANGED <<call, answer, peers, remotePeers, blocks, utxos, mempool, now, appended, faults, resolved, tasks, observed>>

\* POST /blocks/mine on the peer, with nothing pending there: the block
\* holds a coinbase only, which the peer's checks pass whatever it holds.
PeerMine ==
    /\ Len(peerChain) < MaxPeerChain
    /\ \E dt \in Deltas :
         LET b == MinedBlock(peerChain, {}, <<>>, PeerMiner,
                             get_latest_block(peerChain).timestamp + dt)
             r == add_block(peerChain, {}, <<>>, b, TRUE)
         IN  /\ r.status = "ok"
             /\ peerChain' = r.blocks
    /\ UNCHANGED <<call, answer, peers, remotePeers, blocks, utxos, mempool, now, appended, faults, resolved, tasks, observed>>

\* POST /blocks/mine on a peer that mines at the target block time, so
\* that its difficulty stays where it is.
PeerMineSteady ==
    /\ Len(peerChain) < MaxSteadyChain
    /\ LET b == MinedBlock(peerChain, {}, <<>>, PeerMiner,
                           get_latest_block(peerChain).timestamp + TARGET_TIME)
           r == add_block(peerChain, {}, <<>>, b, TRUE)
       IN  /\ r.status = "ok"
           /\ peerChain' = r.blocks
    /\ UNCHANGED <<call, answer, peers, remotePeers, blocks, utxos, mempool, now, appended, faults, resolved, tasks, observed>>

\* The UTXO set of the peer: its chain applied from genesis.
PeerUtxos == RebuildFrom({}, <<>>, peerChain, 1).utxos

\* POST /transactions and then POST /blocks/mine on the peer: the owner of
\* one of the peer's UTXOs spends it there, paying a fee, and the peer
\* mines the transaction into its next block.
PeerMineSpend ==
    /\ Len(peerChain) < MaxPeerChain
    /\ \E dt \in Deltas, u \in PeerUtxos :
         LET clock == get_latest_block(peerChain).timestamp + dt
             a == add_transaction(PeerUtxos, <<>>,
                                  <<TxInput(u, Sign(u.address, u.txid, u.vout))>>,
                                  <<[address |-> Payee(u.address),
                                     amount |-> u.amount - FeeUnit]>>, clock)
             b == MinedBlock(peerChain, a.utxos, a.mempool, PeerMiner, clock)
             r == add_block(peerChain, a.utxos, a.mempool, b, TRUE)
         IN  /\ a.status = "ok"
             /\ r.status = "ok"
             /\ peerChain' = r.blocks
    /\ UNCHANGED <<call, answer, peers, remotePeers, blocks, utxos, mempool, now, appended, faults, resolved, tasks, observed>>

\* ------------------------------------------------------------ multisig
\* The public keys of a multi-signature address, in the order the address
\* was created with, the number of signatures it requires, and the address.
MultisigKeys == <<"K1", "K2", "K3">>
MultisigAddr == "KDM"
MultisigData(m) ==
    [address |-> MultisigAddr, public_keys |-> MultisigKeys, required_signatures |-> m]

\* public_key.verify(signature, "<txid>:<vout>"): whether it returns.
VerifiesUnder(signature, public_key, txid, vout) ==
    /\ signature.signer = public_key
    /\ signature.msg = <<txid, vout>>

\* public_keys[key_index] as Python indexes a list: a negative index counts
\* from the end, and an index below -len raises IndexError.
PyIndexable(list, key_index) == key_index >= -Len(list) /\ key_index < Len(list)
PyIndex(list, key_index) ==
    IF key_index >= 0 THEN list[key_index + 1] ELSE list[Len(list) + key_index + 1]

\* The loop of verify_multisig_transaction from signature j on: "True",
\* "False", or "raised" when an exception leaves the loop (which the outer
\* handler turns into False).
RECURSIVE VerifyLoop(_, _, _, _, _, _)
VerifyLoop(tx_input, public_keys, required_signatures, j, valid_signatures, used_keys) ==
    IF j > Len(tx_input.signatures) THEN "False"
    ELSE LET signature_data == tx_input.signatures[j]
             key_index == signature_data.key_index
         IN  IF key_index \in used_keys \/ key_index >= Len(public_keys)
             THEN VerifyLoop(tx_input, public_keys, required_signatures, j + 1,
                             valid_signatures, used_keys)
             ELSE IF ~PyIndexable(public_keys, key_index) THEN "raised"
             ELSE IF VerifiesUnder(signature_data.signature,
                                   PyIndex(public_keys, key_index),
                                   tx_input.txid, tx_input.vout)
                  THEN IF valid_signatures + 1 >= required_signatures THEN "True"
                       ELSE VerifyLoop(tx_input, public_keys, required_signatures, j + 1,
                                       valid_signatures + 1, used_keys \cup {key_index})
             ELSE VerifyLoop(tx_input, public_keys, required_signatures, j + 1,
                             valid_signatures, used_keys)

\* MultiSigWallet.verify_multisig_transaction
verify_multisig_transaction(tx_input, multisig_data) ==
    IF Len(tx_input.signatures) < multisig_data.required_signatures THEN FALSE
    ELSE VerifyLoop(tx_input, multisig_data.public_keys,
                    multisig_data.required_signatures, 1, 0, {}) = "True"

\* MultiSigWallet.create_multisig_transaction_input
create_multisig_transaction_input(txid, vout, signatures) ==
    [txid |-> txid, vout |-> vout, signatures |-> signatures, multisig |-> TRUE]

\* The entries a signer may put in the signature list of an input spending
\* (txid, vout): a signature of one of the key holders over the input or
\* over another output, with a key index in range, beyond the last key,
\* or negative.
SignatureEntries(txid, vout) ==
    {[signature |-> Sign(MultisigKeys[k], txid, v), key_index |-> ki] :
        k \in 1..Len(MultisigKeys), v \in {vout, vout + 1},
        ki \in {-Len(MultisigKeys) - 1, -1} \cup (0..Len(MultisigKeys))}

\* The signature lists of up to MaxSignatures entries.
SignatureLists(txid, vout) ==
    UNION {[1..n -> SignatureEntries(txid, vout)] : n \in 0..MaxSignatures}

\* The output verify_multisig_transaction is called about when it is
\* called on its own.
SomeTxid == <<<<>>, <<[address |-> MultisigAddr, amount |-> INITIAL_REWARD]>>, 1>>

\* The arguments of a call of verify_multisig_transaction.
VerifyCalls ==
    {[fn |-> "verify_multisig_transaction",
      tx_input |-> create_multisig_transaction_input(SomeTxid, 0, sigs),
      multisig_data |-> MultisigData(m)] :
        sigs \in SignatureLists(SomeTxid, 0), m \in 1..MaxSignatures}

\* verify_multisig_transaction is called.
VerifyMultisig ==
    /\ call.fn = "verify_multisig_transaction"
    /\ ~answer.done
    /\ answer' = [done |-> TRUE,
                  result |-> verify_multisig_transaction(call.tx_input, call.multisig_data)]
    /\ UNCHANGED <<blocks, utxos, mempool, now, appended, peerChain, faults,
                   resolved, tasks, observed, call, peers, remotePeers>>

\* POST /blocks/mine with the multi-signature address as miner_address.
MineToMultisig ==
    /\ Len(blocks) < MaxChain
    /\ \E dt \in Deltas :
         LET b == MinedBlock(blocks, utxos, mempool, MultisigAddr, now + dt)
             r == add_block(blocks, utxos, mempool, b, TRUE)
         IN  /\ blocks' = r.blocks
             /\ utxos' = r.utxos
             /\ mempool' = r.mempool
             /\ now' = IF r.status = "ok" THEN now + dt ELSE now
             /\ appended' = AppendOutcome(blocks, b, r.status)
    /\ UNCHANGED <<peerChain, faults, resolved, tasks, observed, call, answer, peers, remotePeers>>

\* The inputs a client may submit to spend a multi-signature UTXO: the one
\* create_multisig_transaction_input makes, and that one with a "signature"
\* field beside the list, holding the first signature of the list.
MultisigInputs(u) ==
    LET made == {create_multisig_transaction_input(u.txid, u.vout, sigs) :
                    sigs \in SignatureLists(u.txid, u.vout)}
    IN  made \cup {[txid |-> i.txid, vout |-> i.vout, signatures |-> i.signatures,
                    multisig |-> TRUE, signature |-> i.signatures[1].signature] :
                      i \in {x \in made : x.signatures # <<>>}}

\* POST /transactions with one input that spends a multi-signature UTXO,
\* the whole of it paid to a wallet address.  One such request is followed
\* in a run.
AddMultisigTransaction ==
    /\ Len(mempool) < MaxMempool
    /\ ~answer.done
    /\ \E u \in {x \in utxos : x.address = MultisigAddr} :
         \E tx_input \in MultisigInputs(u) :
           LET r == add_transaction(utxos, mempool, <<tx_input>>,
                                    <<[address |-> LocalMiner, amount |-> u.amount]>>,
                                    now + Tick)
           IN  /\ utxos' = r.utxos
               /\ mempool' = r.mempool
               /\ now' = IF r.status = "ok" THEN now + Tick ELSE now
               /\ call' = [fn |-> "add_transaction", tx_input |-> tx_input]
               /\ answer' = [done |-> TRUE, status |-> r.status]
    /\ UNCHANGED <<blocks, appended, peerChain, faults, resolved, tasks, observed, peers, remotePeers>>

\* --------------------------------------------------- merkle proofs
\* One level up in the tree: the hashes of the pairs, the last hash paired
\* with itself when the level has an odd number of hashes.
NewLevel(hashes) ==
    [k \in 1..((Len(hashes) + 1) \div 2) |->
        <<hashes[2 * k - 1],
          IF 2 * k > Len(hashes) THEN hashes[2 * k - 1] ELSE hashes[2 * k]>>]

\* A proof step that names the sibling as the right one wherever it is.
ProofStepAlwaysRight(hashes, tx_index) ==
    LET i == 2 * (tx_index \div 2)
        left == hashes[i + 1]
        right == IF i + 1 = Len(hashes) THEN hashes[i + 1] ELSE hashes[i + 2]
    IN  [hash |-> IF i = tx_index THEN right ELSE left, position |-> "right"]

\* The step of a proof at one level, for the hash at tx_index (from 0).
ProofStep(hashes, tx_index) ==
    LET i == 2 * (tx_index \div 2)
        left == hashes[i + 1]
        right == IF i + 1 = Len(hashes) THEN hashes[i + 1] ELSE hashes[i + 2]
    IN  IF i = tx_index THEN [hash |-> right, position |-> "right"]
        ELSE [hash |-> left, position |-> "left"]

\* MerkleTree._generate_proof_recursive
RECURSIVE generate_proof_recursive(_, _, _)
generate_proof_recursive(hashes, tx_index, proof) ==
    IF Len(hashes) = 1 THEN proof
    ELSE generate_proof_recursive(NewLevel(hashes), tx_index \div 2,
                                  Append(proof, ProofStep(hashes, tx_index)))

\* MerkleTree.generate_proof: None, or the list of steps.  The transaction
\* looked for is the last one of the list with that txid.
generate_proof(tx_hash, transactions) ==
    LET found == {i \in 1..Len(transactions) : transactions[i].txid = tx_hash}
    IN  IF found = {} THEN [none |-> TRUE, steps |-> <<>>]
        ELSE [none |-> FALSE,
              steps |-> generate_proof_recursive(
                            [i \in 1..Len(transactions) |-> <<transactions[i].txid>>],
                            Max(found) - 1, <<>>)]

\* The loop of verify_transaction from step j on.
RECURSIVE FoldProof(_, _, _)
FoldProof(current_hash, steps, j) ==
    IF j > Len(steps) THEN current_hash
    ELSE FoldProof(IF steps[j].position = "left"
                   THEN <<steps[j].hash, current_hash>>
                   ELSE <<current_hash, steps[j].hash>>, steps, j + 1)

\* MerkleTree.verify_transaction
verify_transaction(tx_hash, merkle_root, proof) ==
    IF proof.none THEN FALSE
    ELSE FoldProof(<<tx_hash>>, proof.steps, 1) = merkle_root

\* The txids of the transactions of a block, and one no block holds.
Txids == {"t1", "t2", "t3"}
AbsentTxid == "t4"

\* The transaction lists of up to MaxTxs transactions, and for each the
\* txids a proof may be asked for.
MerkleCalls ==
    {[fn |-> "generate_proof", transactions |-> txs, tx_hash |-> t] :
        txs \in UNION {[1..n -> {[txid |-> x] : x \in Txids}] : n \in 0..MaxTxs},
        t \in Txids \cup {AbsentTxid}}

\* create_merkle_root, generate_proof and verify_transaction are called one
\* after the other, as Block.generate_transaction_proof and
\* Block.verify_transaction do.
MerkleRoundTrip ==
    /\ call.fn = "generate_proof"
    /\ ~answer.done
    /\ LET root == create_merkle_root(call.transactions)
           proof == generate_proof(call.tx_hash, call.transactions)
       IN  answer' = [done |-> TRUE, root |-> root, proof |-> proof,
                      verified |-> verify_transaction(call.tx_hash, root, proof)]
    /\ UNCHANGED <<blocks, utxos, mempool, now, appended, peerChain, faults,
                   resolved, tasks, observed, call, peers, remotePeers>>

\* ----------------------------------- requests that run side by side
\* The node serves its routes with Flask's app.run and takes no lock: a
\* request is a sequence of reads and writes of the database, and the reads
\* and writes of other requests come between them.  `tasks` holds the
\* requests that have begun and not ended, each with the place it is at
\* (pc) and what it has read so far.
Idle == tasks = <<>>

\* What a reader has seen before it has read anything.
NothingObserved ==
    [during |-> FALSE, blocks |-> <<>>, utxos |-> {}, before |-> <<>>, chains |-> <<>>]

\* resolve_conflicts up to the end of its bulk transaction: whether a chain
\* is adopted, and the block store the transaction leaves.
resolve_conflicts_bulk(B, chains) ==
    LET current_chain == SortByIndex(B)
        current_length == Len(current_chain)
        best_chain == BestChain(chains, 1, <<>>, current_length)
        common_height == CommonHeight(current_chain, best_chain, 0, 0)
        new_blocks == SubSeq(best_chain, common_height + 2, Len(best_chain))
        stored == SelectSeq(B, LAMBDA b : ~(b.index > common_height)) \o new_blocks
    IN  [adopt |-> /\ best_chain # <<>>
                   /\ ~(/\ common_height = 0
                        /\ current_length > 0
                        /\ ~validate_chain_work(best_chain, current_chain)),
         blocks |-> stored,
         common_height |-> common_height]

\* GET /consensus as far as the commit of the bulk transaction, for a
\* candidate that is adopted (for any other, resolve_conflicts returns
\* before its first write).  The blocks are replaced; the UTXO rebuild is
\* still to come, and the blocks it will go through are read.
ResolveConflictsBulk ==
    /\ Idle
    /\ LET chains == <<peerChain>>
           r == resolve_conflicts_bulk(blocks, chains)
       IN  /\ r.adopt
           /\ blocks' = r.blocks
           /\ tasks' = <<[op |-> "resolve_conflicts", pc |-> "rebuild",
                          chains |-> chains,
                          before |-> [blocks |-> blocks, utxos |-> utxos,
                                      mempool |-> mempool],
                          todo |-> get_blocks_range(r.blocks, r.common_height + 1,
                                                    get_chain_length(r.blocks) - 1)]>>
    /\ UNCHANGED <<call, answer, peers, remotePeers, utxos, mempool, now, appended, peerChain, faults, resolved, observed>>

\* The bulk transaction fails between its delete and its insert and is
\* rolled back: the block store is as it was, and the request ends.
ResolveConflictsBulkFails ==
    /\ Idle
    /\ faults < MaxFaults
    /\ LET chains == <<peerChain>>
           r == resolve_conflicts_bulk(blocks, chains)
       IN  /\ r.adopt
           /\ tasks' = <<[op |-> "resolve_conflicts", pc |-> "interrupted",
                          chains |-> chains,
                          before |-> [blocks |-> blocks, utxos |-> utxos,
                                      mempool |-> mempool],
                          todo |-> <<>>]>>
    /\ faults' = faults + 1
    /\ UNCHANGED <<call, answer, peers, remotePeers, blocks, utxos, mempool, now, appended, peerChain, resolved, observed>>

\* One turn of the loop of _rebuild_utxo_set_from_height: the transactions
\* of the next block are processed.  The request ends after the last block
\* (resolve_conflicts returns True) or when an insert raises.
ResolveConflictsRebuild ==
    /\ ~Idle
    /\ tasks[1].op = "resolve_conflicts"
    /\ tasks[1].pc = "rebuild"
    /\ IF tasks[1].todo = <<>>
       THEN /\ tasks' = <<>>
            /\ UNCHANGED <<utxos, mempool>>
       ELSE LET r == process_block_transactions(utxos, mempool,
                                                Head(tasks[1].todo).transactions, 1)
            IN  /\ utxos' = r.utxos
                /\ mempool' = r.mempool
                /\ tasks' = IF ~r.ok
                            THEN <<[tasks[1] EXCEPT !.pc = "raised"]>>
                            ELSE IF Len(tasks[1].todo) = 1 THEN <<>>
                            ELSE <<[tasks[1] EXCEPT !.todo = Tail(@)]>>
    /\ UNCHANGED <<call, answer, peers, remotePeers, blocks, now, appended, peerChain, faults, resolved, observed>>

\* The request is cut off during the UTXO rebuild (the process is stopped,
\* or the database raises).
ResolveConflictsInterrupted ==
    /\ ~Idle
    /\ tasks[1].op = "resolve_conflicts"
    /\ tasks[1].pc = "rebuild"
    /\ faults < MaxFaults
    /\ tasks' = <<[tasks[1] EXCEPT !.pc = "interrupted"]>>
    /\ faults' = faults + 1
    /\ UNCHANGED <<call, answer, peers, remotePeers, blocks, utxos, mempool, now, appended, peerChain, resolved, observed>>

\* A read that comes while resolve_conflicts runs (GET /blocks and
\* GET /utxos/<address>), taken here as one look at both stores.
GetUtxos ==
    /\ ~Idle
    /\ tasks[1].op = "resolve_conflicts"
    /\ tasks[1].pc = "rebuild"
    /\ observed' = [during |-> TRUE, blocks |-> blocks, utxos |-> utxos,
                    before |-> tasks[1].before, chains |-> tasks[1].chains]
    /\ UNCHANGED <<call, answer, peers, remotePeers, blocks, utxos, mempool, now, appended, peerChain, faults,
                   resolved, tasks>>

\* The requests in progress without request i.
Without(ts, i) == SubSeq(ts, 1, i - 1) \o SubSeq(ts, i + 1, Len(ts))

\* POST /transactions as far as the return of validate_transaction.  A
\* request that fails validation ends here with nothing written; one that
\* passes has its marks and its insert still to come.
AddTransactionValidate ==
    /\ Len(tasks) < MaxConns
    /\ Len(mempool) + Len(tasks) < MaxMempool
    /\ \A i \in 1..Len(tasks) : tasks[i].op = "add_transaction"
    /\ \E req \in TxRequests(utxos) :
         LET tx_data == AsTx(req, now + Tick)
         IN  /\ validate_transaction(utxos, mempool, tx_data) = "True"
             /\ tasks' = Append(tasks, [op |-> "add_transaction", pc |-> "mark",
                                        tx_data |-> tx_data])
    /\ now' = now + Tick
    /\ UNCHANGED <<call, answer, peers, remotePeers, blocks, utxos, mempool, appended, peerChain, faults, resolved, observed>>

\* The loop of add_transaction that marks the inputs as spent.
AddTransactionMark ==
    /\ \E i \in 1..Len(tasks) :
         /\ tasks[i].op = "add_transaction"
         /\ tasks[i].pc = "mark"
         /\ utxos' = mark_inputs_spent(utxos, tasks[i].tx_data.inputs)
         /\ tasks' = [tasks EXCEPT ![i].pc = "insert"]
    /\ UNCHANGED <<call, answer, peers, remotePeers, blocks, mempool, now, appended, peerChain, faults, resolved, observed>>

\* mempool.insert(tx_data), and the request ends.
AddTransactionInsert ==
    /\ \E i \in 1..Len(tasks) :
         /\ tasks[i].op = "add_transaction"
         /\ tasks[i].pc = "insert"
         /\ mempool' = Append(mempool, tasks[i].tx_data)
         /\ tasks' = Without(tasks, i)
    /\ UNCHANGED <<call, answer, peers, remotePeers, blocks, utxos, now, appended, peerChain, faults, resolved, observed>>

\* A request that calls add_block, from the moment it holds its block.
AddBlockTask(block) == [op |-> "add_block", pc |-> "validate", block |-> block]

\* POST /blocks/mine as far as the end of new_block.mine_block: the pending
\* transactions and the latest block are read, the block is built and mined.
\* `now` is the time of the latest block stored; the request reads its clock
\* some time after it.
MineBlockBuild ==
    /\ Len(tasks) < MaxConns
    /\ Len(blocks) + Len(tasks) < MaxChain
    /\ \A i \in 1..Len(tasks) : tasks[i].op = "add_block"
    /\ \E dt \in Deltas :
         tasks' = Append(tasks, AddBlockTask(MinedBlock(blocks, utxos, mempool,
                                                        LocalMiner, now + dt)))
    /\ UNCHANGED <<call, answer, peers, remotePeers, blocks, utxos, mempool, now, appended, peerChain, faults,
                   resolved, observed>>

\* POST /blocks as far as Block(**data), with the block an honest peer
\* mined on the tip it has seen.
PostBlockBuild ==
    /\ Len(tasks) < MaxConns
    /\ Len(blocks) + Len(tasks) < MaxChain
    /\ \A i \in 1..Len(tasks) : tasks[i].op = "add_block"
    /\ \E data \in PeerBlocks(blocks, utxos, mempool) :
         /\ is_block_valid(blocks, utxos, mempool, BlockFromData(data, now))
         /\ tasks' = Append(tasks, AddBlockTask(BlockFromData(data, now)))
    /\ UNCHANGED <<call, answer, peers, remotePeers, blocks, utxos, mempool, now, appended, peerChain, faults,
                   resolved, observed>>

\* add_block: _is_block_valid against the stores as they are now.  When it
\* fails, InvalidBlockError is raised and the request ends.
AddBlockValidate ==
    /\ \E i \in 1..Len(tasks) :
         /\ tasks[i].op = "add_block"
         /\ tasks[i].pc = "validate"
         /\ IF is_block_valid(blocks, utxos, mempool, tasks[i].block)
            THEN /\ tasks' = [tasks EXCEPT ![i].pc = "process"]
                 /\ UNCHANGED appended
            ELSE /\ tasks' = Without(tasks, i)
                 /\ appended' = AppendOutcome(blocks, tasks[i].block, "InvalidBlockError")
    /\ UNCHANGED <<call, answer, peers, remotePeers, blocks, utxos, mempool, now, peerChain, faults, resolved, observed>>

\* add_block: process_block_transactions.  When an insert raises, the
\* request ends with what was written before it.
AddBlockProcess ==
    /\ \E i \in 1..Len(tasks) :
         /\ tasks[i].op = "add_block"
         /\ tasks[i].pc = "process"
         /\ LET r == process_block_transactions(utxos, mempool,
                                                tasks[i].block.transactions, 1)
            IN  /\ utxos' = r.utxos
                /\ mempool' = r.mempool
                /\ IF r.ok
                   THEN /\ tasks' = [tasks EXCEPT ![i].pc = "insert"]
                        /\ UNCHANGED appended
                   ELSE /\ tasks' = Without(tasks, i)
                        /\ appended' = AppendOutcome(blocks, tasks[i].block,
                                                     "DatabaseError")
    /\ UNCHANGED <<call, answer, peers, remotePeers, blocks, now, peerChain, faults, resolved, observed>>

\* add_block: blocks.insert, which the unique index on hash may refuse.
AddBlockInsert ==
    /\ \E i \in 1..Len(tasks) :
         /\ tasks[i].op = "add_block"
         /\ tasks[i].pc = "insert"
         /\ IF \E k \in 1..Len(blocks) : blocks[k].hash = tasks[i].block.hash
            THEN /\ UNCHANGED <<blocks, now>>
                 /\ appended' = AppendOutcome(blocks, tasks[i].block, "DatabaseError")
            ELSE /\ blocks' = Append(blocks, tasks[i].block)
                 /\ now' = Max({now, tasks[i].block.timestamp})
                 /\ appended' = AppendOutcome(blocks, tasks[i].block, "ok")
         /\ tasks' = Without(tasks, i)
    /\ UNCHANGED <<call, answer, peers, remotePeers, utxos, mempool, peerChain, faults, resolved, observed>>

\* GET /consensus on the peer, whose one peer is this node: the peer's
\* block store after resolve_conflicts on the node's chain.
PeerConsensus ==
    /\ LET r == resolve_conflicts_bulk(peerChain, <<blocks>>)
       IN  /\ r.adopt
           /\ peerChain' = r.blocks
    /\ UNCHANGED <<call, answer, peers, remotePeers, blocks, utxos, mempool, now, appended, faults, resolved, tasks, observed>>

\* ------------------------------------------------------------ the peers
\* An address is the tuple of the parts that ':' separates in its text:
\* "localhost:5000" is <<"localhost", "5000">> and "localhost" is
\* <<"localhost">>.  A peer record is (address, last_seen, source); a record
\* of POST /peers has no source, and a discovered one no last_seen.
NodeAddress == <<"0.0.0.0", "5000">>
NoSource == <<>>
NeverSeen == -1

\* host, port = address.split(':') needs exactly two parts if there is a ':'.
normalize_peer_address_raises(address) == Len(address) > 2

normalize_peer_address(address) ==
    IF Len(address) = 1
    THEN address
    ELSE <<IF address[1] \in {"localhost", "0.0.0.0"} THEN "127.0.0.1" ELSE address[1],
           address[2]>>

\* peers.find_one({'address': address})
find_peer(P, address) == \E i \in 1..Len(P) : P[i].address = address

\* The loop of _discover_peers_from_peer from entry k on; a ValueError of
\* the normalization ends it with the records inserted so far.
RECURSIVE discover_peers_from_peer(_, _, _, _, _)
discover_peers_from_peer(self, P, address, peer_list, k) ==
    IF k > Len(peer_list) THEN P
    ELSE LET peer_address == peer_list[k]
         IN  IF peer_address = <<>>
             THEN discover_peers_from_peer(self, P, address, peer_list, k + 1)
             ELSE IF normalize_peer_address_raises(peer_address) THEN P
             ELSE LET normalized_peer == normalize_peer_address(peer_address)
                  IN  IF normalized_peer = normalize_peer_address(self)
                      THEN discover_peers_from_peer(self, P, address, peer_list, k + 1)
                      ELSE IF find_peer(P, normalized_peer)
                      THEN discover_peers_from_peer(self, P, address, peer_list, k + 1)
                      ELSE discover_peers_from_peer(self,
                               Append(P, [address |-> normalized_peer,
                                          last_seen |-> NeverSeen,
                                          source |-> address]),
                               address, peer_list, k + 1)

\* Whether _connect_to_peer goes on to _sync_with_peer.
connect_to_peer_syncs(self, address, post) ==
    /\ normalize_peer_address(address) # normalize_peer_address(self)
    /\ post = "ok"

\* The peers collection after _connect_to_peer(address); `sync_raised` says
\* that _sync_with_peer ended with an exception, which ends the connection
\* before the discovery.
connect_to_peer(self, P, address, post, sync_raised, peer_list, clock) ==
    IF ~connect_to_peer_syncs(self, address, post) THEN P
    ELSE LET normalized_address == normalize_peer_address(address)
             P1 == IF ~find_peer(P, normalized_address)
                   THEN Append(P, [address |-> normalized_address,
                                   last_seen |-> clock,
                                   source |-> NoSource])
                   ELSE [i \in 1..Len(P) |->
                            IF P[i].address = normalized_address
                            THEN [P[i] EXCEPT !.last_seen = clock]
                            ELSE P[i]]
         IN  IF sync_raised THEN P1
             ELSE discover_peers_from_peer(self, P1, address, peer_list, 1)

\* Whether POST /peers inserts the address and connects to it.
add_peer_connects(P, address) ==
    /\ ~normalize_peer_address_raises(address)
    /\ ~find_peer(P, normalize_peer_address(address))

Addresses ==
    {<<"localhost", "5000">>, <<"localhost", "5001">>, <<"0.0.0.0", "5001">>,
     <<"127.0.0.1", "5001">>, <<"localhost">>, <<"127.0.0.1">>,
     <<"http", "//localhost", "5001">>}
PeerLists ==
    UNION {[1..n -> Addresses \cup {<<>>}] : n \in 0..MaxPeerList}

\* POST /peers with `address`, whole: the insert, the connection to the
\* peer, the synchronisation with its chain and the discovery of its peers.
\* The peer answers POST /peers with `post` ("down" is a transport
\* failure), GET /blocks/latest with `latest`, GET /blocks with peerChain
\* and GET /peers with the addresses of `peer_list` (<<>> is an entry
\* without address).
AddPeer ==
    \E address \in Addresses, post \in {"ok", "error", "down"},
       latest \in {"ok", "down"}, peer_list \in PeerLists :
        /\ Len(peers) + 1 + Len(peer_list) <= MaxPeers
        /\ IF ~add_peer_connects(peers, address)
           THEN UNCHANGED <<peers, blocks, utxos, mempool, resolved>>
           ELSE LET normalized_address == normalize_peer_address(address)
                    inserted == Append(peers, [address |-> normalized_address,
                                               last_seen |-> now,
                                               source |-> NoSource])
                    chains == <<peerChain>>
                    consensus ==
                        /\ connect_to_peer_syncs(NodeAddress, normalized_address, post)
                        /\ latest = "ok"
                        /\ get_latest_block(peerChain).index > get_latest_block(blocks).index
                    r == resolve_conflicts(blocks, utxos, mempool, chains)
                    raised == consensus /\ resolve_conflicts_raises(blocks, utxos, mempool, chains)
                IN  /\ peers' = connect_to_peer(NodeAddress, inserted, normalized_address, post,
                                                raised, peer_list, now)
                    /\ IF consensus
                       THEN /\ blocks' = r.blocks
                            /\ utxos' = r.utxos
                            /\ mempool' = r.mempool
                            /\ resolved' = [chains |-> chains, replaced |-> r.replaced,
                                            raised |-> raised]
                       ELSE UNCHANGED <<blocks, utxos, mempool, resolved>>
        /\ UNCHANGED <<call, answer, now, appended, peerChain, faults, tasks, observed, remotePeers>>

\* Seconds between two blocks of a node that mines now and then: around
\* half the target block time, at it, around twice the target, and after
\* a long pause.
Pauses == {1, 299, 300, TARGET_TIME, 1200, 1201, 5000}

\* POST /blocks/mine after a pause.
MineBlockAfterPause ==
    /\ Len(blocks) < MaxMinedChain
    /\ \E dt \in Pauses :
         LET b == MinedBlock(blocks, utxos, mempool, LocalMiner, now + dt)
             r == add_block(blocks, utxos, mempool, b, TRUE)
         IN  /\ blocks' = r.blocks
             /\ utxos' = r.utxos
             /\ mempool' = r.mempool
             /\ now' = IF r.status = "ok" THEN now + dt ELSE now
             /\ appended' = AppendOutcome(blocks, b, r.status)
    /\ UNCHANGED <<call, answer, peers, remotePeers, peerChain, faults, resolved, tasks, observed>>

\* ------------------------------------------- the registration handshake
\* Two nodes on one machine, both started with host 0.0.0.0: the node at
\* port 5000 and the peer at port 5001.  `peers` is the collection of the
\* node, `remotePeers` the one of the peer.  `tasks` holds the requests
\* that are being handled, the innermost one last: an HTTP request that a
\* handler makes is handled by the other node before the handler goes on.
RemoteAddress == <<"0.0.0.0", "5001">>
NodeNames == {"node", "peer"}
OwnAddress(n) == IF n = "node" THEN NodeAddress ELSE RemoteAddress
OtherNode(n) == IF n = "node" THEN "peer" ELSE "node"
\* The node that listens at an address of the machine.
NodeAt(address) == IF address[2] = NodeAddress[2] THEN "node" ELSE "peer"
PeersOf(n) == IF n = "node" THEN peers ELSE remotePeers
\* The host names under which a client names a node of the machine.
HostNames == {"localhost", "127.0.0.1", "10.0.0.2"}

\* The collections after node n stored P.
StorePeers(n, P) ==
    IF n = "node"
    THEN peers' = P /\ UNCHANGED remotePeers
    ELSE remotePeers' = P /\ UNCHANGED peers

\* A client sends POST /peers to a node, with an address of the other one.
AddPeerRequest ==
    /\ tasks = <<>>
    /\ \E n \in NodeNames, host \in HostNames :
         LET address == <<host, OwnAddress(OtherNode(n))[2]>>
         IN  /\ tasks' = <<[op |-> "add_peer", node |-> n, address |-> address,
                            pc |-> "start"]>>
             /\ call' = [fn |-> "add_peer", node |-> n, address |-> address]
    /\ UNCHANGED <<blocks, utxos, mempool, now, appended, peerChain, faults,
                   resolved, observed, answer, peers, remotePeers>>

\* add_peer up to the POST /peers that _connect_to_peer sends: the lookup,
\* the insert, and the request to the peer with the node's own address.
AddPeerInsert ==
    /\ tasks # <<>>
    /\ Last(tasks).op = "add_peer"
    /\ Last(tasks).pc = "start"
    /\ LET task == Last(tasks)
           self == OwnAddress(task.node)
           normalized_address == normalize_peer_address(task.address)
           inserted == Append(PeersOf(task.node),
                              [address |-> normalized_address, last_seen |-> now,
                               source |-> NoSource])
       IN  IF find_peer(PeersOf(task.node), normalized_address)
           THEN /\ tasks' = Prefix(tasks)
                /\ UNCHANGED <<peers, remotePeers>>
           ELSE /\ StorePeers(task.node, inserted)
                /\ IF normalized_address = normalize_peer_address(self)
                   THEN tasks' = Prefix(tasks)
                   ELSE tasks' = Append(WithLast(tasks, [task EXCEPT !.pc = "posted"]),
                                        [op |-> "add_peer",
                                         node |-> NodeAt(normalized_address),
                                         address |-> normalize_peer_address(self),
                                         pc |-> "start"])
    /\ UNCHANGED <<blocks, utxos, mempool, now, appended, peerChain, faults,
                   resolved, observed, call, answer>>

\* _connect_to_peer after the peer answered 200: the insert or update, the
\* synchronisation (both chains are of one length here) and the discovery
\* from the list GET /peers of the peer returns; then add_peer returns.
AddPeerConnected ==
    /\ tasks # <<>>
    /\ Last(tasks).op = "add_peer"
    /\ Last(tasks).pc = "posted"
    /\ LET task == Last(tasks)
           normalized_address == normalize_peer_address(task.address)
           theirs == PeersOf(NodeAt(normalized_address))
           peer_list == [i \in 1..Len(theirs) |-> theirs[i].address]
       IN  StorePeers(task.node,
                      connect_to_peer(OwnAddress(task.node), PeersOf(task.node),
                                      normalized_address, "ok", FALSE, peer_list, now))
    /\ tasks' = Prefix(tasks)
    /\ UNCHANGED <<blocks, utxos, mempool, now, appended, peerChain, faults,
                   resolved, observed, call, answer>>

\* --------------------------------------- functions called on their own
\* The heights calculate_block_reward is asked about: the first blocks of
\* the reward eras 0..MaxHalvings, the last ones and some in between.
Heights ==
    {k * HALVING_INTERVAL + d :
        k \in 0..MaxHalvings,
        d \in {0, 1, HALVING_INTERVAL \div 2, HALVING_INTERVAL - 1}}
RewardCalls ==
    {c \in [fn : {"calculate_block_reward"}, block_height : Heights,
            later_height : Heights] : c.later_height >= c.block_height}

\* calculate_block_reward(block_height), and again for a later height.
CalculateBlockReward ==
    /\ call.fn = "calculate_block_reward"
    /\ ~answer.done
    /\ answer' = [done |-> TRUE,
                  reward |-> calculate_block_reward(call.block_height),
                  later_reward |-> calculate_block_reward(call.later_height)]
    /\ UNCHANGED <<blocks, utxos, mempool, now, appended, peerChain, faults,
                   resolved, tasks, observed, call, peers, remotePeers>>

\* ------------------------------------------------------ specification
\* The node after construction, with no request made yet.
InitNode ==
    /\ blocks = <<Genesis(0)>>
    /\ utxos = {}
    /\ mempool = <<>>
    /\ now = 0
    /\ appended = [status |-> "ok", linked |-> TRUE]
    /\ peerChain = <<Genesis(PeerStart)>>
    /\ faults = 0
    /\ resolved = [chains |-> <<>>, replaced |-> FALSE, raised |-> FALSE]
    /\ tasks = <<>>
    /\ observed = NothingObserved
    /\ peers = <<>>
    /\ remotePeers = <<>>

\* `call` is the argument list of a function that is called on its own, and
\* `answer` what it returned; the routes of the node use neither.
NoCall == [fn |-> "none"]
NoAnswer == [done |-> FALSE]

Init ==
    /\ InitNode
    /\ call = NoCall
    /\ answer = NoAnswer

Next ==
    \/ AddTransaction
    \/ MineBlock
    \/ ReceiveBlock

Spec == Init /\ [][Next]_vars

\* The node with a block store that may fail.
NextFault ==
    \/ faults = 0 /\ AddTransaction
    \/ faults = 0 /\ MineBlock
    \/ ReceiveBlockStoreFails

SpecFault == Init /\ [][NextFault]_vars

\* The node and a peer whose chain the fork resolver is given.
NextFork ==
    \/ AddTransaction
    \/ MineBlock
    \/ PeerSync
    \/ PeerMine
    \/ Consensus

SpecFork == Init /\ [][NextFork]_vars

\* The node and peers whose answers the fork resolver cannot trust.
NextResolve ==
    \/ MineBlock
    \/ PeerSync
    \/ PeerMine
    \/ ConsensusAny

SpecResolve == Init /\ [][NextResolve]_vars

\* The fork resolver step by step, with reads that come in between and
\* with requests that are cut off.  After a request was cut off or raised
\* nothing more is done.
NextReorg ==
    \/ Idle /\ MineBlock
    \/ Idle /\ PeerSync
    \/ Idle /\ PeerMine
    \/ ResolveConflictsBulk
    \/ ResolveConflictsBulkFails
    \/ ResolveConflictsRebuild
    \/ ResolveConflictsInterrupted
    \/ GetUtxos

SpecReorg == Init /\ [][NextReorg]_vars

\* The node with pending transactions and a peer that mines transactions
\* of its own.
NextPending ==
    \/ AddTransaction
    \/ MineBlock
    \/ PeerSync
    \/ PeerMineSpend
    \/ Consensus

SpecPending == Init /\ [][NextPending]_vars

\* POST /transactions from several connections at once.
NextSubmit ==
    \/ Idle /\ MineBlock
    \/ AddTransactionValidate
    \/ AddTransactionMark
    \/ AddTransactionInsert

SpecSubmit == Init /\ [][NextSubmit]_vars

\* TransactionManager.remove_transactions: the mempool documents whose txid
\* is listed are deleted; the UTXO collection is not touched.
remove_transactions(M, txids) ==
    SelectSeq(M, LAMBDA tx : tx.txid \notin txids)

\* TransactionManager.clear_mempool: every mempool document is deleted; the
\* UTXO collection is not touched.
clear_mempool(M) == <<>>

RemoveTransactions ==
    /\ mempool # <<>>
    /\ \E chosen \in (SUBSET {i \in 1..Len(mempool) : TRUE}) \ {{}} :
         mempool' = remove_transactions(mempool, {mempool[i].txid : i \in chosen})
    /\ UNCHANGED <<utxos, now, call, answer, peers, remotePeers, blocks, appended, peerChain, faults, resolved, tasks, observed>>

ClearMempool ==
    /\ mempool # <<>>
    /\ mempool' = clear_mempool(mempool)
    /\ UNCHANGED <<utxos, now, call, answer, peers, remotePeers, blocks, appended, peerChain, faults, resolved, tasks, observed>>

\* Admissions, mined blocks and transactions taken out of the mempool
\* unmined.
NextEvict ==
    \/ AddTransaction
    \/ MineBlock
    \/ RemoveTransactions
    \/ ClearMempool

SpecEvict == Init /\ [][NextEvict]_vars

\* TransactionManager.debug_transaction: an input that fails a check gets
\* an error in its own details and the loop goes on to the next input; an
\* output that fails a check is left out of the total likewise. Only an
\* empty input or output list and an input total below the output total
\* end in "Failed".
debug_transaction(U, M, tx) ==
    IF tx.inputs = <<>> \/ tx.outputs = <<>>
    THEN [validation_result |-> "Failed",
          error |-> "Transaction must have inputs and outputs"]
    ELSE LET input_sum ==
                 SumSeq([i \in 1..Len(tx.inputs) |->
                            IF InputError(U, M, tx.inputs[i]) = "ok"
                            THEN get_utxo(U, tx.inputs[i].txid, tx.inputs[i].vout).amount
                            ELSE 0])
             output_sum ==
                 SumSeq([i \in 1..Len(tx.outputs) |->
                            IF tx.outputs[i].amount <= 0 THEN 0
                            ELSE tx.outputs[i].amount])
         IN  IF input_sum < output_sum
             THEN [validation_result |-> "Failed", error |-> "Insufficient funds"]
             ELSE [validation_result |-> "Success", error |-> "None"]

\* POST /debug/transaction
DebugTransaction ==
    /\ \E req \in TxRequests(utxos) :
         LET tx == [txid |-> generate_txid(req.inputs, req.outputs, now),
                    inputs |-> req.inputs, outputs |-> req.outputs, coinbase |-> FALSE]
         IN  /\ call' = [fn |-> "debug_transaction", tx |-> tx]
             /\ answer' = [done |-> TRUE,
                           validation_result |-> debug_transaction(utxos, mempool, tx).validation_result,
                           error |-> debug_transaction(utxos, mempool, tx).error]
    /\ UNCHANGED <<utxos, mempool, now, peers, remotePeers, blocks, appended, peerChain, faults, resolved, tasks, observed>>

\* Admissions and mined blocks, with debug requests in between.
NextDebug ==
    \/ AddTransaction
    \/ MineBlock
    \/ DebugTransaction

SpecDebug == Init /\ [][NextDebug]_vars

\* POST /blocks/mine and POST /blocks from several connections at once.
NextAppend ==
    \/ MineBlockBuild
    \/ PostBlockBuild
    \/ AddBlockValidate
    \/ AddBlockProcess
    \/ AddBlockInsert

SpecAppend == Init /\ [][NextAppend]_vars

\* Two nodes registered with each other.  Each mines for a while; the
\* consensus sweeps of both are run again and again, and a sweep that has
\* begun goes on to its end.
NextSweep ==
    \/ Idle /\ MineBlock
    \/ Idle /\ PeerSync
    \/ Idle /\ PeerMine
    \/ ResolveConflictsBulk
    \/ ResolveConflictsRebuild
    \/ Idle /\ PeerConsensus

SpecSweep ==
    /\ Init
    /\ [][NextSweep]_vars
    /\ WF_vars(ResolveConflictsBulk)
    /\ WF_vars(ResolveConflictsRebuild)
    /\ WF_vars(Idle /\ PeerConsensus)

\* The node with a multi-signature address that is paid and that spends.
NextMultisig ==
    \/ MineToMultisig
    \/ AddMultisigTransaction

SpecMultisig == Init /\ [][NextMultisig]_vars

\* verify_multisig_transaction called on its own.
InitVerify ==
    /\ InitNode
    /\ call \in VerifyCalls
    /\ answer = NoAnswer

SpecVerify == InitVerify /\ [][VerifyMultisig]_vars

\* The merkle tree functions called on their own.
InitMerkle ==
    /\ InitNode
    /\ call \in MerkleCalls
    /\ answer = NoAnswer

SpecMerkle == InitMerkle /\ [][MerkleRoundTrip]_vars

\* The node and the peers that register with it.
NextPeers ==
    \/ AddPeer
    \/ PeerMine

SpecPeers == Init /\ [][NextPeers]_vars

\* calculate_block_reward called on its own.
InitReward ==
    /\ InitNode
    /\ call \in RewardCalls
    /\ answer = NoAnswer

SpecReward == InitReward /\ [][CalculateBlockReward]_vars

\* The node mines fast, so that its difficulty rises, and a peer mines at
\* the target block time.
NextWork ==
    \/ MineBlock
    \/ PeerMineSteady
    \/ Consensus

SpecWork == Init /\ [][NextWork]_vars

\* The node mines blocks at different paces.
SpecDifficulty == Init /\ [][MineBlockAfterPause]_vars

\* Two nodes that clients register with each other; a request that is
\* being handled goes on.
NextHandshake ==
    \/ AddPeerRequest
    \/ AddPeerInsert
    \/ AddPeerConnected

SpecHandshake ==
    /\ Init
    /\ [][NextHandshake]_vars
    /\ WF_vars(AddPeerInsert)
    /\ WF_vars(AddPeerConnected)

\* ------------------------------------------------------------ properties
Range(s) == {s[i] : i \in 1..Len(s)}

\* The (txid, vout) pairs a list of inputs names.
RefsOf(inputs) == {<<inputs[j].txid, inputs[j].vout>> : j \in 1..Len(inputs)}

\* A step that stores one more block, and the block it stores.
BlockStored == Len(blocks') = Len(blocks) + 1
NewBlock == Last(blocks')

\* C1: every stored block at index n > 0 has as previous_hash the hash of
\* the stored block at index n - 1.
C1_PreviousHashLinks ==
    \A i, j \in 1..Len(blocks) :
        (blocks[i].index > 0 /\ blocks[j].index = blocks[i].index - 1)
            => blocks[i].previous_hash = blocks[j].hash

\* The outputs the transactions of the stored blocks produced, and the
\* outputs their non-coinbase transactions name as inputs.
StoredTxs(B) == UNION {Range(B[i].transactions) : i \in 1..Len(B)}

ProducedOutputs(B) ==
    UNION {{[txid |-> t.txid, vout |-> k - 1, address |-> t.outputs[k].address,
             amount |-> t.outputs[k].amount] : k \in 1..Len(t.outputs)} :
           t \in StoredTxs(B)}

ReferencedOutputs(B) ==
    UNION {RefsOf(t.inputs) : t \in {x \in StoredTxs(B) : ~x.coinbase}}

UtxoRecords(U) ==
    {[txid |-> u.txid, vout |-> u.vout, address |-> u.address, amount |-> u.amount] :
        u \in U}

\* C2: the UTXO set is exactly the outputs produced by the transactions of
\* the stored blocks, minus the outputs their non-coinbase transactions
\* name as inputs.
C2_UtxoSetIsProducedMinusConsumed ==
    UtxoRecords(utxos) =
        {o \in ProducedOutputs(blocks) : <<o.txid, o.vout>> \notin ReferencedOutputs(blocks)}

RECURSIVE SumAmounts(_)
SumAmounts(S) ==
    IF S = {} THEN 0
    ELSE LET u == CHOOSE x \in S : TRUE IN u.amount + SumAmounts(S \ {u})

\* The UTXOs of U that a list of inputs names.
ReferencedUtxos(U, inputs) ==
    {u \in U : <<u.txid, u.vout>> \in RefsOf(inputs)}

\* C4: a transaction enters the mempool only if it has an input and an
\* output, every input names a UTXO that exists and is not reserved, every
\* signature verifies against the address of the UTXO, and the amounts of
\* the UTXOs it names cover its outputs.
C4_AdmittedOnlyIfValid ==
    [][\A k \in 1..Len(mempool') :
          mempool'[k] \notin Range(mempool) =>
              LET tx == mempool'[k]
              IN  /\ tx.inputs # <<>>
                  /\ tx.outputs # <<>>
                  /\ \A j \in 1..Len(tx.inputs) :
                       /\ has_utxo(utxos, tx.inputs[j].txid, tx.inputs[j].vout)
                       /\ ~is_utxo_spent_in_mempool(utxos, mempool, tx.inputs[j].txid,
                                                    tx.inputs[j].vout)
                       /\ verify_input_signature(
                              tx.inputs[j],
                              get_utxo(utxos, tx.inputs[j].txid, tx.inputs[j].vout).address)
                  /\ SumAmounts(ReferencedUtxos(utxos, tx.inputs)) >= OutputSum(tx.outputs)]_vars

\* The checks of the admission validator that concern the UTXO set.
PassesAdmissionChecks(U, tx) ==
    /\ tx.inputs # <<>>
    /\ tx.outputs # <<>>
    /\ \A j \in 1..Len(tx.inputs) :
         /\ has_utxo(U, tx.inputs[j].txid, tx.inputs[j].vout)
         /\ verify_input_signature(
                tx.inputs[j], get_utxo(U, tx.inputs[j].txid, tx.inputs[j].vout).address)
    /\ InputSum(U, tx.inputs) >= OutputSum(tx.outputs)

\* C5: a block is stored only if each of its non-coinbase transactions has
\* inputs that exist in the UTXO set before the block, signatures that
\* verify, and inputs that cover its outputs.
C5_StoredBlockTransactionsValid ==
    [][BlockStored =>
          \A k \in 1..Len(NewBlock.transactions) :
              ~NewBlock.transactions[k].coinbase
                  => PassesAdmissionChecks(utxos, NewBlock.transactions[k])]_vars

\* The fee of a transaction as input total minus output total.
FeeOf(U, tx) ==
    IF tx.coinbase THEN 0 ELSE InputSum(U, tx.inputs) - OutputSum(tx.outputs)

\* C6 as stated: a block at index > 0 is stored only if its first
\* transaction is a coinbase without inputs and with one output, that pays
\* to the miner address of the block exactly the reward of the index plus
\* the fees (input total minus output total) of the other transactions.
C6_CoinbaseEqualsRewardPlusFees ==
    [][(BlockStored /\ NewBlock.index > 0) =>
          LET txs == NewBlock.transactions
          IN  /\ txs # <<>>
              /\ txs[1].coinbase
              /\ txs[1].inputs = <<>>
              /\ Len(txs[1].outputs) = 1
              /\ txs[1].outputs[1].amount =
                     calculate_block_reward(NewBlock.index)
                       + SumSeq([i \in 1..(Len(txs) - 1) |-> FeeOf(utxos, txs[i + 1])])
              /\ txs[1].outputs[1].address = NewBlock.miner_address]_vars

\* C6 amended: ... that pays to the miner address of the block, within the
\* tolerance, the reward of the index plus the fees of the other
\* transactions, a fee being the amounts of the inputs found in the UTXO
\* set minus the output total, or zero when that is negative.
C6_CoinbaseWithinTolerance ==
    [][(BlockStored /\ NewBlock.index > 0) =>
          LET txs == NewBlock.transactions
          IN  /\ txs # <<>>
              /\ txs[1].coinbase
              /\ txs[1].inputs = <<>>
              /\ Len(txs[1].outputs) = 1
              /\ Abs(txs[1].outputs[1].amount
                       - (calculate_block_reward(NewBlock.index)
                            + SumSeq([i \in 1..(Len(txs) - 1) |->
                                         calculate_transaction_fee(utxos, txs[i + 1])])))
                     <= COINBASE_TOLERANCE
              /\ txs[1].outputs[1].address = NewBlock.miner_address]_vars

\* The tip holds a fee-paying transaction and a coinbase of more than the
\* reward.
C6_Witness ==
    /\ Len(blocks) > 1
    /\ Len(Last(blocks).transactions) > 1
    /\ Last(blocks).transactions[1].coinbase
    /\ Last(blocks).transactions[1].outputs[1].amount
           > calculate_block_reward(Last(blocks).index) + COINBASE_TOLERANCE

\* C7 as stated: a block is stored only if its hash has at least as many
\* leading zeros as get_difficulty() answers at the time of the append.
C7_StoredAtCurrentDifficulty ==
    [][BlockStored => LeadingZeros(NewBlock.hash) >= get_difficulty(blocks)]_vars

\* C7 amended: a block is stored only if its hash has at least the default
\* difficulty of 4 leading zeros, whatever get_difficulty() answers.
C7_StoredAtDefaultDifficulty ==
    [][BlockStored => LeadingZeros(NewBlock.hash) >= DEFAULT_DIFFICULTY]_vars

\* The tip was stored with fewer leading zeros than get_difficulty()
\* answered on the chain below it.
C7_Witness ==
    /\ Len(blocks) > 1
    /\ LeadingZeros(Last(blocks).hash) = DEFAULT_DIFFICULTY
    /\ get_difficulty(SubSeq(blocks, 1, Len(blocks) - 1)) > DEFAULT_DIFFICULTY

\* C8: every stored block has as merkle_root the root of its own
\* transaction list.
C8_MerkleRootMatches ==
    \A i \in 1..Len(blocks) :
        blocks[i].merkle_root = create_merkle_root(blocks[i].transactions)

\* C9: an append of a block whose index is not the tip's plus one, or whose
\* previous_hash is not the tip's hash, or whose hash is not the hash of its
\* header, fails with InvalidBlockError and leaves the block store, the
\* UTXO set and the mempool as they were.
C9_UnlinkedBlockRejected ==
    [][((MineBlock \/ ReceiveBlock) /\ ~appended'.linked) =>
          /\ appended'.status = "InvalidBlockError"
          /\ UNCHANGED <<blocks, utxos, mempool>>]_vars

\* An append of such a block was refused on a node that holds blocks,
\* UTXOs and a pending transaction.
C9_Witness ==
    /\ ~appended.linked
    /\ appended.status = "InvalidBlockError"
    /\ Len(blocks) > 1
    /\ utxos # {}
    /\ mempool # <<>>

\* C10: an append that does not store its block changes neither the UTXO
\* set nor the mempool, also when the store fails to perform the insert.
C10_AppendAtomic ==
    [][(faults' # faults /\ blocks' = blocks) => UNCHANGED <<utxos, mempool>>]_vars

\* A candidate the fork resolver is to adopt on store B: strictly longer,
\* passing external validation, and with more work where the chains share
\* no block above genesis.
Adoptable(B, chain) ==
    /\ Len(chain) > Len(B)
    /\ validate_external_chain(chain)
    /\ CommonHeight(SortByIndex(B), chain, 0, 0) = 0
           => validate_chain_work(chain, SortByIndex(B))

\* The longest of the adoptable candidates (of several, the first).
LongestAdoptable(B, chains) ==
    LET good == {i \in 1..Len(chains) : Adoptable(B, chains[i])}
        longest == Max({Len(chains[i]) : i \in good})
    IN  chains[Min({i \in good : Len(chains[i]) = longest})]

\* C11: when a candidate is strictly longer than the local chain and passes
\* external validation (and the more-work test where it applies), the fork
\* resolver returns replaced = true, and afterwards the local chain has the
\* length and the tip hash of the longest such candidate.
C11_LongestValidCandidateAdopted ==
    [][\A chains \in PeerAnswers(peerChain) :
          (ConsensusOn(chains) /\ \E i \in 1..Len(chains) : Adoptable(blocks, chains[i]))
          => /\ resolved'.replaced
             /\ ~resolved'.raised
             /\ Len(blocks') = Len(LongestAdoptable(blocks, chains))
             /\ get_latest_block(blocks').hash = Last(LongestAdoptable(blocks, chains)).hash]_vars

\* C12: when no candidate is both strictly longer than the local chain and
\* externally valid, the fork resolver returns false and leaves the block
\* store, the UTXO set and the mempool as they were.
C12_NoBetterCandidateNoChange ==
    [][\A chains \in PeerAnswers(peerChain) :
          (ConsensusOn(chains)
             /\ ~\E i \in 1..Len(chains) :
                    Len(chains[i]) > Len(blocks) /\ validate_external_chain(chains[i]))
          => /\ ~resolved'.replaced
             /\ ~resolved'.raised
             /\ UNCHANGED <<blocks, utxos, mempool>>]_vars

\* The resolver was given a valid chain of the length of the local chain
\* that is another chain, and returned false.
C12_Witness ==
    /\ Len(blocks) > 1
    /\ Len(resolved.chains) = 1
    /\ Len(resolved.chains[1]) = Len(blocks)
    /\ validate_external_chain(resolved.chains[1])
    /\ resolved.chains[1] # blocks
    /\ ~resolved.replaced

\* The UTXO set that applying the blocks of a chain from genesis gives.
ReplayedUtxos(chain) == UtxoRecords(RebuildFrom({}, <<>>, chain, 1).utxos)

\* C13: after a reorganization that adopts a candidate, the UTXO set is the
\* one that applying the candidate's blocks from genesis to tip gives.
C13_UtxoSetOfAdoptedChain ==
    [][\A chains \in PeerAnswers(peerChain) :
          (ConsensusOn(chains) /\ resolved'.replaced)
          => UtxoRecords(utxos')
               = ReplayedUtxos(BestChain(chains, 1, <<>>, Len(blocks)))]_vars

\* What external validation is to establish of every block above genesis.
WellFormedChain(chain) ==
    \A i \in 2..Len(chain) :
        /\ chain[i].index = chain[i - 1].index + 1
        /\ chain[i].previous_hash = chain[i - 1].hash
        /\ chain[i].hash = compute_hash(chain[i])
        /\ LeadingZeros(chain[i].hash) >= DEFAULT_DIFFICULTY

\* C14: external validation passes no candidate that holds, above genesis, a
\* block with a broken index, a previous_hash that is not the hash of the
\* block before it, a hash field that is not the hash of its header, or
\* fewer than 4 leading zeros; the fork resolver adopts no such chain.
C14_OnlyWellFormedChainsAdopted ==
    [][\A chains \in PeerAnswers(peerChain) :
          ConsensusOn(chains)
          => /\ \A i \in 1..Len(chains) :
                    validate_external_chain(chains[i]) => WellFormedChain(chains[i])
             /\ blocks' # blocks
                    => WellFormedChain(BestChain(chains, 1, <<>>, Len(blocks)))]_vars

\* C15: running the fork resolver a second time with the same candidates
\* returns replaced = false and leaves the chain, its tip and the UTXO set as
\* the first run left them.
C15_SecondRunChangesNothing ==
    [][\A chains \in PeerAnswers(peerChain) :
          ConsensusOn(chains)
          => LET again == resolve_conflicts(blocks', utxos', mempool', chains)
             IN  /\ ~again.replaced
                 /\ again.blocks = blocks'
                 /\ again.utxos = utxos'
                 /\ again.mempool = mempool']_vars

\* A first run has adopted one of two candidates, and the chain is still the
\* one it adopted.
C15_Witness ==
    /\ resolved.replaced
    /\ Len(resolved.chains) = 2
    /\ \E i \in 1..2 : get_latest_block(blocks).hash = Last(resolved.chains[i]).hash
    /\ ~resolve_conflicts(blocks, utxos, mempool, resolved.chains).replaced

\* The stores as resolve_conflicts leaves them when it runs to its end from
\* the state `before` with the candidates `chains`.
AfterReorg(before, chains) ==
    LET r == resolve_conflicts(before.blocks, before.utxos, before.mempool, chains)
    IN  [blocks |-> r.blocks, utxos |-> r.utxos]

\* C16: a reorganization that fails or is cut off at any step leaves the
\* block store and the UTXO set either both as they were before it or both
\* as the complete reorganization leaves them.
C16_ReorgAllOrNothing ==
    \A i \in 1..Len(tasks) :
        (tasks[i].op = "resolve_conflicts" /\ tasks[i].pc \in {"raised", "interrupted"})
        => \/ /\ blocks = tasks[i].before.blocks
              /\ utxos = tasks[i].before.utxos
           \/ /\ blocks = AfterReorg(tasks[i].before, tasks[i].chains).blocks
              /\ utxos = AfterReorg(tasks[i].before, tasks[i].chains).utxos

\* C17: a read that comes during a reorganization sees the block store and
\* the UTXO set either both as they were before it or both as they are
\* after it, never the new blocks with a UTXO set that is not rebuilt yet.
C17_ReadSeesPreOrPostReorg ==
    observed.during
    => \/ /\ observed.blocks = observed.before.blocks
          /\ observed.utxos = observed.before.utxos
       \/ /\ observed.blocks = AfterReorg(observed.before, observed.chains).blocks
          /\ observed.utxos = AfterReorg(observed.before, observed.chains).utxos

\* C18: after a reorganization every transaction still in the mempool is
\* valid against the UTXO set the reorganization leaves: its inputs exist
\* there, their signatures verify and they cover its outputs.
C18_MempoolValidAfterReorg ==
    [][(Consensus /\ resolved'.replaced)
          => \A k \in 1..Len(mempool') :
                 PassesAdmissionChecks(utxos', mempool'[k])]_vars

\* C19: of two transactions submitted at the same time that spend the same
\* UTXO at most one is admitted, whatever the order of their validate, mark
\* and insert steps: no two pending transactions name the same UTXO.
C19_ConcurrentSpendsAdmitOne ==
    ~\E i, j \in 1..Len(mempool) :
        /\ i < j
        /\ \E k \in 1..Len(mempool[i].inputs), l \in 1..Len(mempool[j].inputs) :
               /\ mempool[i].inputs[k].txid = mempool[j].inputs[l].txid
               /\ mempool[i].inputs[k].vout = mempool[j].inputs[l].vout

\* C20: when blocks are appended from several connections at once, the
\* stored blocks are one sequence: no two have the same index, the indices
\* are 0 .. length - 1, and the length is the index of the latest block
\* plus one.
C20_StoredBlocksTotalSequence ==
    /\ \A i, j \in 1..Len(blocks) : i # j => blocks[i].index # blocks[j].index
    /\ {blocks[i].index : i \in 1..Len(blocks)} = 0..(Len(blocks) - 1)
    /\ get_chain_length(blocks) = get_latest_block(blocks).index + 1

\* C21: when mining has stopped, repeated consensus sweeps on both nodes
\* eventually leave them with the same chain for good: the same block at
\* every index, and so the same tip.
C21_NodesConverge == <>[](SortByIndex(blocks) = SortByIndex(peerChain))

\* The UTXOs the non-coinbase transactions of a block name as inputs.
ConsumedBy(block) ==
    UNION {RefsOf(block.transactions[k].inputs) :
              k \in {n \in 1..Len(block.transactions) : ~block.transactions[n].coinbase}}

\* C22: when a block is applied, the pending transactions it includes leave
\* the mempool, and afterwards no pending transaction spends a UTXO the
\* block consumed.
C22_AppliedBlockClearsMempool ==
    [][BlockStored =>
          /\ \A k \in 1..Len(NewBlock.transactions), n \in 1..Len(mempool') :
                 mempool'[n].txid # NewBlock.transactions[k].txid
          /\ \A n \in 1..Len(mempool') :
                 RefsOf(mempool'[n].inputs) \cap ConsumedBy(NewBlock) = {}]_vars

\* The keys, by position 0 .. n-1, that have a signature in the input which
\* names their position and verifies over the message txid:vout.
Backers(tx_input, multisig_data) ==
    {k \in 0..(Len(multisig_data.public_keys) - 1) :
        \E j \in 1..Len(tx_input.signatures) :
            /\ tx_input.signatures[j].key_index = k
            /\ VerifiesUnder(tx_input.signatures[j].signature,
                             multisig_data.public_keys[k + 1],
                             tx_input.txid, tx_input.vout)}

\* C23: admission accepts an input that spends a multi-signature UTXO when
\* it carries at least m verifying signatures over distinct key indices in
\* range, and rejects it with a bad-signature error otherwise.
C23_MultisigInputAdmitted ==
    (call.fn = "add_transaction" /\ answer.done)
    => IF Cardinality(Backers(call.tx_input, MultisigData(MaxSignatures))) >= MaxSignatures
       THEN answer.status = "ok"
       ELSE answer.status = "Invalid signature"

\* C30: verify_multisig_transaction returns true only if at least m of the
\* n distinct public keys each have a signature in the input that verifies
\* over txid:vout under a key index in 0 .. n-1; no key counts twice.
C30_VerifyNeedsDistinctKeys ==
    (call.fn = "verify_multisig_transaction" /\ answer.done /\ answer.result)
    => Cardinality(Backers(call.tx_input, call.multisig_data))
           >= call.multisig_data.required_signatures

\* C24: for every transaction of a non-empty list the proof generated for
\* its txid verifies against the root of the list; for a txid that is not
\* in the list no proof is generated; the root of the empty list is the
\* string of 64 zeros.
C24_MerkleRoundTrip ==
    (call.fn = "generate_proof" /\ answer.done)
    => /\ (\E i \in 1..Len(call.transactions) : call.transactions[i].txid = call.tx_hash)
              => (~answer.proof.none /\ answer.verified)
       /\ (\A i \in 1..Len(call.transactions) : call.transactions[i].txid # call.tx_hash)
              => answer.proof.none
       /\ call.transactions = <<>> => answer.root = ZeroHash

\* A proof was generated and verified for the last transaction of a list of
\* five, which is paired with itself on two levels.
C24_Witness ==
    /\ call.fn = "generate_proof"
    /\ answer.done
    /\ Len(call.transactions) = MaxTxs
    /\ call.transactions[MaxTxs].txid = call.tx_hash
    /\ \A i \in 1..(MaxTxs - 1) : call.transactions[i].txid # call.tx_hash
    /\ Len(answer.proof.steps) = 3
    /\ answer.verified

\* C25: after any sequence of POST /peers requests, with the connections
\* and discoveries they make, no two peer records have addresses that are
\* equal once localhost and 0.0.0.0 are collapsed to 127.0.0.1, and no
\* discovered record has the address of the node itself.
Collapsed(address) ==
    IF address[1] \in {"localhost", "0.0.0.0"}
    THEN [address EXCEPT ![1] = "127.0.0.1"]
    ELSE address

C25_PeerSetNormalized ==
    /\ \A i, j \in 1..Len(peers) :
          i # j => Collapsed(peers[i].address) # Collapsed(peers[j].address)
    /\ \A i \in 1..Len(peers) :
          peers[i].source # NoSource
              => Collapsed(peers[i].address) # Collapsed(NodeAddress)

\* C26: the reward at a height is 50 coins halved once for every full
\* 210000 blocks of the height: 50 at height 0, 25 at 210000, 12.5 at
\* 420000, and never more at a later height than at an earlier one.
C26_RewardHalves ==
    (call.fn = "calculate_block_reward" /\ answer.done) =>
        /\ answer.reward = 50000000 \div Pow2(call.block_height \div 210000)
        /\ call.block_height = 0 => answer.reward = 50000000
        /\ call.block_height = 210000 => answer.reward = 25000000
        /\ call.block_height = 420000 => answer.reward = 12500000
        /\ answer.later_reward <= answer.reward

C26_Witness ==
    /\ call.fn = "calculate_block_reward"
    /\ answer.done
    /\ call.block_height = 210000
    /\ call.later_height = 420000
    /\ answer.reward = 25000000
    /\ answer.later_reward = 12500000

\* The largest index h (counted from 0) with local[i].hash =
\* candidate[i].hash for all i <= h, and -1 if the chains differ at index 0.
CommonAncestor(local, candidate) ==
    LET agree == {h \in 0..(Min({Len(local), Len(candidate)}) - 1) :
                     \A i \in 0..h : local[i + 1].hash = candidate[i + 1].hash}
    IN  IF agree = {} THEN -1 ELSE Max(agree)

\* C27: in a reorganization the common ancestor height h is the largest
\* index up to which the local and the candidate chain have the same
\* hashes; the local blocks 0..h stay as they are and are the candidate's
\* blocks, the blocks above h are replaced by the candidate's, and the
\* local chain afterwards is the candidate chain block for block.
C27_ReorgReplacesDivergentSuffix ==
    [][\A chains \in PeerAnswers(peerChain) :
          (ConsensusOn(chains) /\ resolved'.replaced)
          => LET local == SortByIndex(blocks)
                 candidate == BestChain(chains, 1, <<>>, Len(blocks))
                 h == CommonAncestor(local, candidate)
                 after == SortByIndex(blocks')
             IN  /\ CommonHeight(local, candidate, 0, 0) = h
                 /\ \A i \in 1..(h + 1) : after[i] = local[i] /\ after[i] = candidate[i]
                 /\ after = candidate]_vars

\* C28: when the common ancestor height is 0 and the local chain has blocks
\* above genesis, the candidate replaces the local chain only if its
\* cumulative work is at least 10% above the local chain's; a longer
\* candidate that fails the test is refused, and the block store, the UTXO
\* set and the mempool stay as they are.
C28_DivergentChainNeedsMoreWork ==
    [][LET local == SortByIndex(blocks)
           candidate == BestChain(<<peerChain>>, 1, <<>>, Len(blocks))
       IN  (/\ Consensus
            /\ candidate # <<>>
            /\ CommonHeight(local, candidate, 0, 0) = 0
            /\ Len(local) > 1)
           => /\ resolved'.replaced
                    => 10 * ChainWork(candidate) >= 11 * ChainWork(local)
              /\ 10 * ChainWork(candidate) < 11 * ChainWork(local)
                    => /\ ~resolved'.replaced
                       /\ UNCHANGED <<blocks, utxos, mempool>>]_vars

\* The resolver refused a valid candidate that is longer than the local
\* chain and has no more work than it.
C28_Witness ==
    /\ Len(blocks) > 1
    /\ resolved.chains = <<peerChain>>
    /\ Len(peerChain) > Len(blocks)
    /\ validate_external_chain(peerChain)
    /\ ChainWork(peerChain) <= ChainWork(blocks)
    /\ ~resolved.replaced

\* The last up-to-10 blocks of the chain, and whether the average interval
\* between their timestamps is below half or above twice the target.
DifficultyWindow ==
    LET chain == SortByIndex(blocks)
    IN  SubSeq(chain, Max({1, Len(chain) - 9}), Len(chain))
WindowSpan ==
    LET ts == {DifficultyWindow[i].timestamp : i \in 1..Len(DifficultyWindow)}
    IN  Max(ts) - Min(ts)
WindowFast == 2 * WindowSpan < 600 * (Len(DifficultyWindow) - 1)
WindowSlow == WindowSpan > 1200 * (Len(DifficultyWindow) - 1)
WindowCur == CurrentDifficulty(DifficultyWindow, 1, 4)

\* The rule of get_difficulty: 4 with fewer than 2 blocks, otherwise cur + 1
\* for a fast window, max(1, cur - 1) for a slow one and cur in between;
\* never below 1.
DifficultyRule ==
    IF Len(DifficultyWindow) < 2
    THEN get_difficulty(blocks) = 4
    ELSE /\ WindowFast => get_difficulty(blocks) = WindowCur + 1
         /\ WindowSlow => get_difficulty(blocks) = Max({1, WindowCur - 1})
         /\ ~WindowFast /\ ~WindowSlow => get_difficulty(blocks) = WindowCur
         /\ get_difficulty(blocks) >= 1

\* C29 as stated: get_difficulty follows the rule; a window mined faster
\* than half the target gives a difficulty above 4, and a window mined
\* slower than twice the target gives a difficulty of at most 4.
C29_SlowWindowAtMostDefault ==
    /\ DifficultyRule
    /\ Len(DifficultyWindow) >= 2 /\ WindowFast => get_difficulty(blocks) > 4
    /\ Len(DifficultyWindow) >= 2 /\ WindowSlow => get_difficulty(blocks) <= 4

\* C29 amended: get_difficulty follows the rule; a window mined faster than
\* half the target gives a difficulty above 4, and a window mined slower
\* than twice the target gives a difficulty one below the current one,
\* which is at most 4 when the current difficulty is at most 5.
C29_SlowWindowOneBelowCurrent ==
    /\ DifficultyRule
    /\ Len(DifficultyWindow) >= 2 /\ WindowFast => get_difficulty(blocks) > 4
    /\ Len(DifficultyWindow) >= 2 /\ WindowSlow
          => /\ get_difficulty(blocks) = WindowCur - 1
             /\ WindowCur <= 5 => get_difficulty(blocks) <= 4

\* The node mined two blocks fast and a third, with 6 leading zeros, after
\* a long pause: the window is slow and the difficulty is 5.
C29_Witness ==
    /\ Len(blocks) = 4
    /\ WindowSlow
    /\ WindowCur = 6
    /\ get_difficulty(blocks) = 5

\* C40: the node's own normalized address is never the address of a record
\* of its peer collection, whatever address POST /peers is given and
\* whatever a peer's list holds.
C40_OwnAddressNeverStored ==
    \A i \in 1..Len(peers) :
        peers[i].address # normalize_peer_address(NodeAddress)

\* The records a collection holds for a node of the machine.
RecordsFor(P, n) == {i \in 1..Len(P) : NodeAt(P[i].address) = n}

\* C39: the requests that POST /peers sets off between two nodes come to an
\* end, and when they have, each of the two nodes holds exactly one peer
\* record for the other.
C39_HandshakeLeavesOneRecordEach ==
    /\ (tasks # <<>>) ~> (tasks = <<>>)
    /\ []((tasks = <<>> /\ call.fn = "add_peer")
             => /\ Cardinality(RecordsFor(peers, "peer")) = 1
                /\ Cardinality(RecordsFor(remotePeers, "node")) = 1)

\* C31: is_chain_valid returns false whenever a stored block above genesis
\* has a hash field that is not the hash of its stored header, and returns
\* true as long as the chain was built by appends alone.
C31_ChainScanDetectsAlteredHeader ==
    /\ (\E i \in 1..Len(blocks) :
            blocks[i].index > 0 /\ blocks[i].hash # compute_hash(blocks[i]))
          => ~is_chain_valid(blocks)
    /\ resolved.chains = <<>> => is_chain_valid(blocks)

\* The rewards of the blocks above genesis.
RewardsOf(chain) ==
    SumSeq([i \in 1..Len(chain) |->
               IF chain[i].index > 0 THEN calculate_block_reward(chain[i].index) ELSE 0])

\* C32: in every reachable state the amounts of the UTXO set add up to no
\* more than the rewards of the blocks above genesis in the local chain.
C32_ValueConserved == SumAmounts(utxos) <= RewardsOf(blocks)

\* C33: a transaction admitted to the mempool never lists the same UTXO
\* (txid, vout) in two of its inputs, so the input total that the balance
\* check uses counts each UTXO at most once.
C33_AdmittedInputsDistinct ==
    \A m \in 1..Len(mempool) :
       \A p, q \in 1..Len(mempool[m].inputs) :
          (/\ mempool[m].inputs[p].txid = mempool[m].inputs[q].txid
           /\ mempool[m].inputs[p].vout = mempool[m].inputs[q].vout) => p = q

\* C34: every block stored at an index above 0 holds exactly one coinbase
\* transaction, at position 0: no transaction at a later position is flagged
\* coinbase or comes without inputs.
C34_SingleCoinbaseFirst ==
    \A b \in 1..Len(blocks) :
       blocks[b].index > 0 =>
          /\ blocks[b].transactions # <<>>
          /\ blocks[b].transactions[1].coinbase
          /\ \A k \in 2..Len(blocks[b].transactions) :
                /\ ~blocks[b].transactions[k].coinbase
                /\ blocks[b].transactions[k].inputs # <<>>

\* C35: in every reachable state every pending transaction names as inputs
\* only UTXOs that are in the UTXO set and are flagged spent_in_mempool.
C35_PendingInputsReserved ==
    \A m \in 1..Len(mempool) :
       \A p \in 1..Len(mempool[m].inputs) :
          /\ has_utxo(utxos, mempool[m].inputs[p].txid, mempool[m].inputs[p].vout)
          /\ get_utxo(utxos, mempool[m].inputs[p].txid,
                      mempool[m].inputs[p].vout).spent_in_mempool

\* C36: in every reachable state a UTXO flagged spent_in_mempool is named by
\* an input of some transaction in the mempool, so that a reservation does
\* not outlive the transaction that made it.
C36_ReservationHasPendingSpender ==
    \A u \in utxos :
       u.spent_in_mempool =>
          \E m \in 1..Len(mempool) :
             \E p \in 1..Len(mempool[m].inputs) :
                /\ mempool[m].inputs[p].txid = u.txid
                /\ mempool[m].inputs[p].vout = u.vout

\* C37: in every reachable chain state the block that the mine operation
\* assembles (coinbase of reward plus pending fees, then the pending
\* transactions, index and previous_hash from the latest block, nonce
\* searched at get_difficulty()) is accepted by add_block on the same node.
C37_MinedBlockAccepted ==
    \A dt \in Pauses :
       add_block(blocks, utxos, mempool,
                 MinedBlock(blocks, utxos, mempool, LocalMiner, now + dt),
                 TRUE).status = "ok"

\* C38: debug_transaction reports validation_result "Success" exactly when
\* validate_transaction accepts the same transaction in the same store
\* state, and the debug request changes neither the mempool nor the UTXO
\* set.
C38_DebugAgreesWithValidation ==
    [][(call'.fn = "debug_transaction" /\ <<call', answer'>> # <<call, answer>>) =>
          /\ (answer'.validation_result = "Success")
                <=> (validate_transaction(utxos, mempool, call'.tx) = "True")
          /\ utxos' = utxos
          /\ mempool' = mempool]_vars

====
